---- MODULE Spec2Model ----
(***************************************************************************)
(* The DNS resolver socket of source/main/dns/ResolverSocket.ts: two       *)
(* senders (UDP and TCP), each with an outbound queue, an inbound map and  *)
(* a transport, driven by send(), close(), the timeout interval, the idle  *)
(* closer and the events of the underlying sockets.  Every action is one   *)
(* callback of the single-threaded event loop, run to completion,          *)
(* including every handler it synchronously emits to.  After it come the   *)
(* timeout interval on a millisecond clock, the receive parser of the TCP  *)
(* transport, and the byte reader and writer of source/main/dns/io.ts with *)
(* the records written through them, each with a specification of its own. *)
(***************************************************************************)
EXTENDS Integers, Sequences, FiniteSets, TLC

\* ------------------------------------------------------------------ bounds
MaxTasks == 2        \* calls of ResolverSocket.send in one behaviour
MaxSockets == 2      \* sockets of one transport that are alive at once
MaxId == 2           \* message IDs are 1..MaxId
MaxLarge == 1        \* requests over the UDP limit in one behaviour
MaxFaults == 1       \* disruptions in one behaviour: close() calls, idle closes,
                     \* socket errors, socket timeouts, connections the server closes

\* ------------------------------------------------------- program constants
UdpLimit == 512          \* TransportUDP.send: writer.offset() > 512
BufferLength == 65537    \* options.buffer = Buffer.alloc(65537)
SendRetries == 2         \* ResolverSocket.send: task.retriesLeft = 2
timeoutInMs == 10000     \* options.timeoutInMs || 10000

Workers == {"UDP", "TCP"}
Tasks == 1..MaxTasks
Ids == 1..MaxId
OpCodes == {"QUERY", "UPDATE"}
\* encoded request sizes: the edges of the two transports' limits
Sizes == {UdpLimit, UdpLimit + 1, BufferLength - 2, BufferLength - 1}
\* a socket between its creation and its "close" event
LiveStates == {"opening", "open", "closing"}
\* the socket an event comes from: this.socket, or one created before it
Sources == {"cur", "old"}
NoRequest == [id |-> 0, opcode |-> "QUERY", size |-> 0]
\* what a transport "error" event carries: a ResolverError with its kind, or
\* any other error object
Reasons == {[resolverError |-> FALSE, kind |-> "io"],
            [resolverError |-> TRUE, kind |-> "ResponseMalformed"]}

VARIABLES
    request,      \* Task.request, per task: [id, opcode, size]
    retriesLeft,  \* Task.retriesLeft
    age,          \* now - Task.timeSentUnixMs while awaited: 0, or timeoutInMs and more
    outcome,      \* how the task's promise was settled, "pending" before
    answer,       \* the response a resolved promise carries: [via, tc]
    sent,         \* per task and worker: requests written to the socket
    fallbacks,    \* per task: times UDP overflow enqueued it on the TCP worker
    calls,        \* per task: times task.resolve or task.reject was called
    nTasks,       \* tasks created so far by send()
    outbound,     \* SenderBase.outbound, per worker
    inbound,      \* SenderBase.inbound, per worker, in insertion order
    isOpen,       \* Transport.isOpen, per worker
    sock,         \* the state of Transport.socket, "none" if undefined or dead
    old,          \* sockets created before it and still alive: how many in each state
    closer,       \* the armed timers that deferCloseIfEmpty created, per worker: how many
    isTimedOut,   \* TransportTCP.isTimedOut
    udpError,     \* TransportUDP.error, "none" if undefined
    faults,       \* the disruptions so far, in order: at most MaxFaults
    clock,        \* one request on a millisecond clock: see TimerInit
    tcp,          \* the receive parser of TransportTCP.open: see ParserInit
    io,           \* a Writer of io.ts and the calls made on it: see WriterInit
    trip,         \* a name on its way through readName and writeName: see NamesInit
    rr,           \* a resource record written and read back: see RecordInit
    frame         \* a request sent by TransportTCP.send: see FrameInit

taskVars ==
    <<request, retriesLeft, age, outcome, answer, sent, fallbacks, calls, nTasks>>
senderVars == <<outbound, inbound, closer>>
transportVars == <<isOpen, sock, old, isTimedOut, udpError>>
\* the variables of the specifications that follow the resolver socket's
codecVars == <<clock, tcp, io, trip, rr, frame>>
vars == <<taskVars, senderVars, transportVars, faults, codecVars>>

\* no request is on the millisecond clock
NoClock == [timeout |-> 0, now |-> 0, nextTick |-> 0, timeSent |-> 0,
            retries |-> 0, retriesLeft |-> 0, settledAt |-> -1]
ClockIdle == clock = NoClock

\* no stream is being received
NoTcp == [messages |-> <<>>, cuts |-> {}, pos |-> 0, fed |-> 0,
          listener |-> "length", usesScratch |-> TRUE, scratch |-> <<>>,
          slice |-> <<>>, bytesExpected |-> -1, bytesReceived |-> 0,
          emitted |-> <<>>, thrown |-> FALSE]
TcpIdle == tcp = NoTcp

\* no Writer has been constructed
NoWriter == [sink |-> <<>>, begin |-> 0, cursor |-> 0, end |-> 0,
             overflowed |-> FALSE, thrown |-> FALSE, touched |-> {},
             first |-> [cursor |-> -1, sink |-> <<>>], calls |-> <<>>]
IoIdle == io = NoWriter

\* no name is being read or written
NoTrip == [wire |-> <<>>, text |-> <<>>, written |-> <<>>, failed |-> FALSE,
           step |-> "none"]
TripIdle == trip = NoTrip
NoRecord == [record |-> <<>>, offset |-> 0, bytes |-> <<>>, failed |-> FALSE,
             back |-> <<>>, again |-> <<>>, step |-> "none"]
RecordIdle == rr = NoRecord
NoFrame == [message |-> <<>>, buffer |-> <<>>, writeSigns |-> FALSE,
            signed |-> <<>>, wire |-> <<>>, outcome |-> "none", step |-> "none"]
FrameIdle == frame = NoFrame

\* The whole state as one record, so that a handler and the handlers it
\* emits to compose as functions.  overrun is no program state: it is set
\* when a handler needs more sockets than MaxSockets.
State ==
    [request |-> request, retriesLeft |-> retriesLeft, age |-> age,
     outcome |-> outcome, answer |-> answer, sent |-> sent,
     fallbacks |-> fallbacks, calls |-> calls,
     nTasks |-> nTasks, outbound |-> outbound, inbound |-> inbound,
     isOpen |-> isOpen, sock |-> sock, old |-> old, closer |-> closer,
     isTimedOut |-> isTimedOut, udpError |-> udpError, overrun |-> FALSE]

\* task t is in the inbound map of some worker
InInbound(S, t) ==
    \E w \in Workers : \E i \in 1..Len(S.inbound[w]) : S.inbound[w][i] = t

\* The next state is S.  timeSentUnixMs is read only of tasks in an inbound
\* map, and poll stamps it before every inbound.set: age is kept of those.
Becomes(S) ==
    /\ ~S.overrun
    /\ request' = S.request
    /\ retriesLeft' = S.retriesLeft
    /\ age' = [t \in Tasks |-> IF InInbound(S, t) THEN S.age[t] ELSE 0]
    /\ outcome' = S.outcome
    /\ answer' = S.answer
    /\ sent' = S.sent
    /\ fallbacks' = S.fallbacks
    /\ calls' = S.calls
    /\ nTasks' = S.nTasks
    /\ outbound' = S.outbound
    /\ inbound' = S.inbound
    /\ isOpen' = S.isOpen
    /\ sock' = S.sock
    /\ old' = S.old
    /\ closer' = S.closer
    /\ isTimedOut' = S.isTimedOut
    /\ udpError' = S.udpError
    /\ UNCHANGED codecVars

\* --------------------------------------------------------------- helpers
RemoveAt(seq, i) ==
    [j \in 1..(Len(seq) - 1) |-> IF j < i THEN seq[j] ELSE seq[j + 1]]

IdOf(S, t) == S.request[t].id

\* first index of seq whose task has message ID id, 0 if none
IndexOfId(S, seq, id) ==
    IF \E i \in 1..Len(seq) : IdOf(S, seq[i]) = id
    THEN CHOOSE i \in 1..Len(seq) :
            /\ IdOf(S, seq[i]) = id
            /\ \A j \in 1..(i - 1) : IdOf(S, seq[j]) # id
    ELSE 0

\* a Map.has(id) that finds nothing
MapHasNothing(S, w, id) == FALSE

\* Map.has(id)
MapHas(S, w, id) == IndexOfId(S, S.inbound[w], id) # 0

\* Map.set(id, t): an existing key keeps its place in the iteration order
MapSet(S, w, t) ==
    LET i == IndexOfId(S, S.inbound[w], IdOf(S, t))
    IN  IF i = 0
        THEN [S EXCEPT !.inbound[w] = Append(@, t)]
        ELSE [S EXCEPT !.inbound[w][i] = t]

\* task.reject(new ResolverError(kind, ...)): a promise settles once
TaskReject(S, t, kind) ==
    IF S.outcome[t] = "pending"
    THEN [S EXCEPT !.outcome[t] = kind, !.calls[t] = @ + 1]
    ELSE [S EXCEPT !.calls[t] = @ + 1]

\* task.resolve(response)
TaskResolve(S, t, w, tc) ==
    IF S.outcome[t] = "pending"
    THEN [S EXCEPT !.outcome[t] = "resolved",
                   !.answer[t] = [via |-> w, tc |-> tc],
                   !.calls[t] = @ + 1]
    ELSE [S EXCEPT !.calls[t] = @ + 1]

\* ------------------------------------------------------------- transport
\* the sockets of worker w that are alive
Live(S, w) ==
    (IF S.sock[w] = "none" THEN 0 ELSE 1)
    + S.old[w]["opening"] + S.old[w]["open"] + S.old[w]["closing"]

\* TransportTCP.open / TransportUDP.open: a new socket unless isOpen; the
\* socket that was this.socket lives on with its handlers
TransportOpen(S, w) ==
    IF S.isOpen[w] THEN S
    ELSE IF Live(S, w) >= MaxSockets THEN [S EXCEPT !.overrun = TRUE]
    ELSE IF S.sock[w] = "none" THEN [S EXCEPT !.sock[w] = "opening"]
    ELSE [S EXCEPT !.old[w][S.sock[w]] = @ + 1, !.sock[w] = "opening"]

\* this.socket.end() (TCP) / this.socket.close() (UDP)
SocketEnd(S, w) ==
    IF S.sock[w] \in {"opening", "open"}
    THEN [S EXCEPT !.sock[w] = "closing"]
    ELSE S

\* a socket of worker w from source o is in state st
SocketIs(S, w, o, st) ==
    IF o = "cur" THEN S.sock[w] = st ELSE S.old[w][st] > 0

\* that socket moves from state st to state to ("none": it is gone)
SocketTo(S, w, o, st, to) ==
    IF o = "cur" THEN [S EXCEPT !.sock[w] = to]
    ELSE IF to = "none" THEN [S EXCEPT !.old[w][st] = @ - 1]
    ELSE [S EXCEPT !.old[w][st] = @ - 1, !.old[w][to] = @ + 1]

\* TransportTCP.close / TransportUDP.close
TransportClose(S, w) ==
    IF S.isOpen[w] THEN SocketEnd([S EXCEPT !.isOpen[w] = FALSE], w) ELSE S

\* the UDP limit off by one: writer.offset() >= 512
OverflowsAtLimit(w, size) ==
    IF w = "UDP" THEN size >= UdpLimit \/ size > BufferLength
    ELSE 2 + size > BufferLength

\* the writer of transport.send overflows, or passes the UDP limit
Overflows(w, size) ==
    IF w = "UDP" THEN size > UdpLimit \/ size > BufferLength
    ELSE 2 + size > BufferLength

\* the length the transport's "overflow" event carries
OverflowLength(w, size) ==
    IF w = "UDP" /\ size <= BufferLength THEN size ELSE BufferLength

\* ---------------------------------------------------------------- sender
\* SenderBase.dequeue(id): the task it returns, 0 for null
DequeueTask(S, w, id) ==
    IF IndexOfId(S, S.outbound[w], id) # 0
    THEN S.outbound[w][IndexOfId(S, S.outbound[w], id)]
    ELSE IF IndexOfId(S, S.inbound[w], id) # 0
    THEN S.inbound[w][IndexOfId(S, S.inbound[w], id)]
    ELSE 0

\* SenderBase.dequeue(id): the state it leaves
DequeueState(S, w, id) ==
    IF IndexOfId(S, S.outbound[w], id) # 0
    THEN [S EXCEPT !.outbound[w] = RemoveAt(@, IndexOfId(S, S.outbound[w], id))]
    ELSE IF IndexOfId(S, S.inbound[w], id) # 0
    THEN [S EXCEPT !.inbound[w] = RemoveAt(@, IndexOfId(S, S.inbound[w], id))]
    ELSE S

RECURSIVE Enqueue(_, _, _)
RECURSIVE Poll(_, _)
RECURSIVE PollEach(_, _, _, _)
RECURSIVE TimeoutEach(_, _, _)

\* rejectAsTooLong
RejectAsTooLong(S, t) == TaskReject(S, t, "RequestTooLong")

\* the "overflow" handlers of ResolverSocket's constructor
OnSenderOverflow(S, w, t, length) ==
    IF t = 0 THEN S
    ELSE IF w = "TCP" THEN RejectAsTooLong(S, t)
    ELSE IF length <= BufferLength - 2
    THEN Enqueue([S EXCEPT !.fallbacks[t] = @ + 1], "TCP", t)
    ELSE RejectAsTooLong(S, t)

\* transport.on("overflow"): emit("overflow", this.dequeue(request.id), length)
OnTransportOverflow(S, w, id, length) ==
    OnSenderOverflow(DequeueState(S, w, id), w, DequeueTask(S, w, id), length)

\* TransportTCP.send / TransportUDP.send of task t's request
TransportSend(S, w, t) ==
    IF Overflows(w, S.request[t].size)
    THEN OnTransportOverflow(S, w, IdOf(S, t),
                             OverflowLength(w, S.request[t].size))
    ELSE [S EXCEPT !.sent[t][w] = @ + 1]

\* clearTimeout(this.closer): the timer that this.closer names is the one
\* armed last, and no other is armed
ClearTimeout(armed) == 0

\* deferCloseIfEmpty without its clearTimeout
DeferCloseKeepingTimer(S, w) == [S EXCEPT !.closer[w] = @ + 1]

\* SenderBase.deferCloseIfEmpty
DeferCloseIfEmpty(S, w) == [S EXCEPT !.closer[w] = ClearTimeout(@) + 1]

\* the callback of poll's outbound.forEach, at index k of n
PollEach(S, w, k, n) ==
    IF k > n THEN S
    ELSE IF k > Len(S.outbound[w]) THEN PollEach(S, w, k + 1, n)
    ELSE LET t == S.outbound[w][k]
             A == TransportSend(S, w, t)
             B == MapSet([A EXCEPT !.age[t] = 0], w, t)
         IN  PollEach(B, w, k + 1, n)

\* SenderBase.poll
Poll(S, w) ==
    IF Len(S.outbound[w]) = 0 THEN S
    ELSE IF ~S.isOpen[w] THEN TransportOpen(S, w)
    ELSE DeferCloseIfEmpty(
            [PollEach(S, w, 1, Len(S.outbound[w])) EXCEPT !.outbound[w] = <<>>],
            w)

\* SenderBase.enqueue
Enqueue(S, w, t) ==
    IF MapHas(S, w, IdOf(S, t))
    THEN TaskReject(S, t, "RequestIDInUse")
    ELSE Poll([S EXCEPT !.outbound[w] = Append(@, t)], w)

\* SenderBase.dequeueAll
DequeueAllTasks(S, w) == S.outbound[w] \o S.inbound[w]

RECURSIVE RejectEach(_, _, _)
RejectEach(S, tasks, kind) ==
    IF tasks = <<>> THEN S
    ELSE RejectEach(TaskReject(S, Head(tasks), kind), Tail(tasks), kind)

\* rejectAll of SenderBase's constructor
RejectAll(S, w, reason) ==
    RejectEach([S EXCEPT !.outbound[w] = <<>>, !.inbound[w] = <<>>],
               DequeueAllTasks(S, w),
               IF reason.resolverError THEN reason.kind ELSE "Other")

\* the loop of the timeout interval over the live inbound map, at entry pos
TimeoutEach(S, w, pos) ==
    IF pos > Len(S.inbound[w]) THEN S
    ELSE LET t == S.inbound[w][pos]
         IN  IF S.age[t] >= timeoutInMs
             THEN LET D == [S EXCEPT !.inbound[w] = RemoveAt(@, pos),
                                     !.retriesLeft[t] = @ - 1]
                  IN  IF S.retriesLeft[t] > 0
                      THEN TimeoutEach(Enqueue(D, w, t), w, pos)
                      ELSE TimeoutEach(TaskReject(D, t, "RequestUnanswered"),
                                       w, pos)
             ELSE TimeoutEach(S, w, pos + 1)

\* the setInterval callback of SenderBase's constructor
OnInterval(S, w) ==
    IF Len(S.inbound[w]) = 0 THEN S ELSE TimeoutEach(S, w, 1)

\* the closer's callback with a closeIfEmpty that tests nothing
OnCloserUntested(S, w) == [TransportClose(S, w) EXCEPT !.closer[w] = @ - 1]

\* SenderBase.closeIfEmpty and the closer's callback: the timer that fired
\* is armed no longer
OnCloser(S, w) ==
    IF Len(S.inbound[w]) = 0 /\ Len(S.outbound[w]) = 0
    THEN [TransportClose(S, w) EXCEPT !.closer[w] = @ - 1]
    ELSE DeferCloseIfEmpty([S EXCEPT !.closer[w] = @ - 1], w)

\* transport.on("response")
OnResponse(S, w, id, tc) ==
    IF DequeueTask(S, w, id) = 0 THEN S
    ELSE TaskResolve(DequeueState(S, w, id), DequeueTask(S, w, id), w, tc)

\* send with one retry more: task.retriesLeft = 3
SocketSendThreeRetries(S, t, req) ==
    LET N == [S EXCEPT !.request[t] = req, !.nTasks = t]
    IN  IF req.opcode # "UPDATE"
        THEN Enqueue([N EXCEPT !.retriesLeft[t] = SendRetries + 1], "UDP", t)
        ELSE Enqueue(N, "TCP", t)

\* send without the test of the OPCODE: every request takes the UDP branch
SocketSendAllUdp(S, t, req) ==
    Enqueue([S EXCEPT !.request[t] = req, !.nTasks = t,
                      !.retriesLeft[t] = SendRetries], "UDP", t)

\* ResolverSocket.send
SocketSend(S, t, req) ==
    LET N == [S EXCEPT !.request[t] = req, !.nTasks = t]
    IN  IF req.opcode # "UPDATE"
        THEN Enqueue([N EXCEPT !.retriesLeft[t] = SendRetries], "UDP", t)
        ELSE Enqueue(N, "TCP", t)

\* ResolverSocket.close
SocketClose(S) == TransportClose(TransportClose(S, "TCP"), "UDP")

\* ---------------------------------------------------------------- actions
ResolverInit ==
    /\ request = [t \in Tasks |-> NoRequest]
    /\ retriesLeft = [t \in Tasks |-> 0]
    /\ age = [t \in Tasks |-> 0]
    /\ outcome = [t \in Tasks |-> "pending"]
    /\ answer = [t \in Tasks |-> [via |-> "none", tc |-> FALSE]]
    /\ sent = [t \in Tasks |-> [w \in Workers |-> 0]]
    /\ fallbacks = [t \in Tasks |-> 0]
    /\ calls = [t \in Tasks |-> 0]
    /\ nTasks = 0
    /\ outbound = [w \in Workers |-> <<>>]
    /\ inbound = [w \in Workers |-> <<>>]
    /\ isOpen = [w \in Workers |-> FALSE]
    /\ sock = [w \in Workers |-> "none"]
    /\ old = [w \in Workers |-> [st \in LiveStates |-> 0]]
    /\ closer = [w \in Workers |-> 0]
    /\ isTimedOut = FALSE
    /\ udpError = "none"
    /\ faults = <<>>

\* the resolver socket after construction
Init ==
    /\ ResolverInit /\ ClockIdle /\ TcpIdle /\ IoIdle /\ TripIdle
    /\ RecordIdle /\ FrameIdle

\* the resolver socket stays as it is
ResolverIdle == UNCHANGED <<taskVars, senderVars, transportVars, faults>>

\* the requests callers send: message IDs are told apart only by equality,
\* so the n-th request takes an ID among the first n
Requests(n) ==
    {[id |-> id, opcode |-> "QUERY", size |-> size] :
        id \in {i \in Ids : i <= n}, size \in Sizes}
    \cup {[id |-> id, opcode |-> "UPDATE", size |-> size] :
        id \in {i \in Ids : i <= n}, size \in {UdpLimit, BufferLength - 1}}

\* a disruption of the given kind: recorded, and at most MaxFaults of them
\* in a behaviour
Fault(kind) == Len(faults) < MaxFaults /\ faults' = Append(faults, kind)

\* requests over the UDP limit sent so far
Large == Cardinality({t \in 1..nTasks : request[t].size > UdpLimit})

\* a caller calls send(request)
Send ==
    /\ nTasks < MaxTasks
    /\ \E req \in Requests(nTasks + 1) :
          /\ req.size > UdpLimit => Large < MaxLarge
          /\ Becomes(SocketSend(State, nTasks + 1, req))
    /\ UNCHANGED faults

\* a caller calls close()
Close ==
    /\ Fault("close")
    /\ Becomes(SocketClose(State))

\* timeoutInMs milliseconds pass for the requests awaiting a response
Advance ==
    /\ \E t \in Tasks : InInbound(State, t) /\ age[t] < timeoutInMs
    /\ age' = [t \in Tasks |->
                 IF InInbound(State, t) /\ age[t] < timeoutInMs
                 THEN timeoutInMs ELSE age[t]]
    /\ UNCHANGED <<request, retriesLeft, outcome, answer, sent, fallbacks, calls,
                   nTasks,
                   senderVars, transportVars, faults, codecVars>>

\* the timeout interval of worker w fires
Interval(w) ==
    /\ Becomes(OnInterval(State, w))
    /\ UNCHANGED faults

\* the idle closer of worker w fires while a request is queued or awaited,
\* and is armed again
CloserDefers(w) ==
    /\ closer[w] > 0
    /\ Len(inbound[w]) # 0 \/ Len(outbound[w]) # 0
    /\ Becomes(OnCloser(State, w))
    /\ UNCHANGED faults

\* the idle closer of worker w fires with nothing queued or awaited
CloserCloses(w) ==
    /\ closer[w] > 0
    /\ Len(inbound[w]) = 0 /\ Len(outbound[w]) = 0
    /\ Fault("idle")
    /\ Becomes(OnCloser(State, w))

\* socket.on("connect") of TransportTCP.open, for a socket from o
OnTcpConnect(S, o) ==
    Poll([SocketTo(S, "TCP", o, "opening", "open") EXCEPT !.isOpen["TCP"] = TRUE],
         "TCP")

\* socket.on("close") that reports every close as an ordinary close
OnTcpCloseOrdinary(S, o, st) ==
    Poll([SocketTo(S, "TCP", o, st, "none")
             EXCEPT !.isOpen["TCP"] = FALSE, !.isTimedOut = FALSE],
         "TCP")

\* socket.on("close") of TransportTCP.open, for a socket from o in state st
OnTcpClose(S, o, st) ==
    LET C == [SocketTo(S, "TCP", o, st, "none") EXCEPT !.isOpen["TCP"] = FALSE]
    IN  IF S.isTimedOut
        THEN RejectAll([C EXCEPT !.isTimedOut = FALSE], "TCP",
                       [resolverError |-> TRUE, kind |-> "RequestUnanswered"])
        ELSE Poll(C, "TCP")

\* socket.on("error") of TransportTCP.open, for a socket from o in state st:
\* node destroys the socket, whose "close" follows
OnTcpError(S, o, st, reason) ==
    RejectAll(SocketTo(S, "TCP", o, st, "closing"), "TCP", reason)

\* socket.on("timeout") of TransportTCP.open
OnTcpTimeout(S) == SocketEnd([S EXCEPT !.isTimedOut = TRUE], "TCP")

\* socket.on("listening") of TransportUDP.open, for a socket from o
OnUdpListening(S, o) ==
    Poll([SocketTo(S, "UDP", o, "opening", "open") EXCEPT !.isOpen["UDP"] = TRUE],
         "UDP")

\* socket.on("close") of TransportUDP.open, for a socket from o
OnUdpClose(S, o) ==
    LET C == [SocketTo(S, "UDP", o, "closing", "none")
                 EXCEPT !.isOpen["UDP"] = FALSE]
    IN  IF S.udpError # "none"
        THEN RejectAll([C EXCEPT !.udpError = "none"], "UDP",
                       [resolverError |-> S.udpError # "io",
                        kind |-> S.udpError])
        ELSE Poll(C, "UDP")

\* onError of TransportUDP.open
OnUdpError(S, reason) == SocketEnd([S EXCEPT !.udpError = reason.kind], "UDP")

\* a socket of the TCP transport reports "connect"
TcpConnect(o) ==
    /\ SocketIs(State, "TCP", o, "opening")
    /\ Becomes(OnTcpConnect(State, o))
    /\ UNCHANGED faults

\* a socket of the TCP transport reports "close" after end() or an error
TcpClose(o) ==
    /\ SocketIs(State, "TCP", o, "closing")
    /\ Becomes(OnTcpClose(State, o, "closing"))
    /\ UNCHANGED faults

\* the server closes a connection, whose socket reports "close"
TcpServerClose(o) ==
    /\ SocketIs(State, "TCP", o, "open")
    /\ Fault("end")
    /\ Becomes(OnTcpClose(State, o, "open"))

\* a socket of the TCP transport reports "error", or a received message
\* fails to decode (socket.emit("error", error), then destroy())
TcpError(o) ==
    /\ Fault("tcp error")
    /\ \E st \in {"opening", "open"}, reason \in Reasons :
          /\ SocketIs(State, "TCP", o, st)
          /\ Becomes(OnTcpError(State, o, st, reason))

\* a socket of the TCP transport reports "timeout"
TcpTimeout(o) ==
    /\ SocketIs(State, "TCP", o, "open")
    /\ Fault("timeout")
    /\ Becomes(OnTcpTimeout(State))

\* a socket of the UDP transport reports "listening"
UdpListening(o) ==
    /\ SocketIs(State, "UDP", o, "opening")
    /\ Becomes(OnUdpListening(State, o))
    /\ UNCHANGED faults

\* a socket of the UDP transport reports "close"
UdpClose(o) ==
    /\ SocketIs(State, "UDP", o, "closing")
    /\ Becomes(OnUdpClose(State, o))
    /\ UNCHANGED faults

\* a socket of the UDP transport reports "error", or a datagram fails to
\* decode
UdpError(o) ==
    /\ SocketIs(State, "UDP", o, "opening") \/ SocketIs(State, "UDP", o, "open")
    /\ Fault("udp error")
    /\ \E reason \in Reasons : Becomes(OnUdpError(State, reason))

\* the TC flag of a response: only datagrams are truncated
Truncations(w) == IF w = "UDP" THEN BOOLEAN ELSE {FALSE}

\* a message with ID id arrives on an open socket of worker w and decodes
Response(w) ==
    /\ \E o \in Sources : SocketIs(State, w, o, "open")
    /\ \E id \in Ids, tc \in Truncations(w) :
          Becomes(OnResponse(State, w, id, tc))
    /\ UNCHANGED faults

\* the events of a run without disruption: the server answers or stays silent
Quiet ==
    \/ Send
    \/ Advance
    \/ \E w \in Workers : Interval(w)
    \/ \E w \in Workers : CloserDefers(w)
    \/ \E o \in Sources : TcpConnect(o)
    \/ \E o \in Sources : UdpListening(o)
    \/ \E w \in Workers : Response(w)

\* the events of a run in which the server stays silent
Silent ==
    \/ Send
    \/ Advance
    \/ \E w \in Workers : Interval(w)
    \/ \E w \in Workers : CloserDefers(w)
    \/ \E o \in Sources : TcpConnect(o)
    \/ \E o \in Sources : UdpListening(o)

\* a socket that was closed, or that failed, reports "close"
Closed ==
    \/ \E o \in Sources : TcpClose(o)
    \/ \E o \in Sources : UdpClose(o)

\* a caller closes the resolver socket
Closes == Close

\* the idle closer closes a transport
Idles == \E w \in Workers : CloserCloses(w)

\* a socket fails, times out or is closed by the server
Failures ==
    \/ \E o \in Sources : TcpServerClose(o)
    \/ \E o \in Sources : TcpError(o)
    \/ \E o \in Sources : TcpTimeout(o)
    \/ \E o \in Sources : UdpError(o)

Next == Quiet \/ Closed \/ Closes \/ Idles \/ Failures

\* every behaviour of the resolver socket, within the bounds
Spec == Init /\ [][Next]_vars

\* the behaviours without a disruption: no socket is ever closed
SpecQuiet == Init /\ [][Quiet]_vars

\* the behaviours in which a caller may call close() while the server stays
\* silent
SpecCloses == Init /\ [][Silent \/ Closed \/ Closes]_vars

\* the behaviours whose disruptions are closes by the idle closer
SpecIdles == Init /\ [][Quiet \/ Closed \/ Idles]_vars

\* the behaviours in which a socket may fail while the server stays silent
SpecFailures == Init /\ [][Silent \/ Closed \/ Failures]_vars

TypeOK ==
    /\ nTasks \in 0..MaxTasks
    /\ \A w \in Workers :
          /\ \A i \in 1..Len(outbound[w]) : outbound[w][i] \in 1..nTasks
          /\ \A i \in 1..Len(inbound[w]) : inbound[w][i] \in 1..nTasks
          /\ Live(State, w) <= MaxSockets
    /\ \A t \in Tasks : age[t] \in {0, timeoutInMs}

\* ------------------------------------------------------------ properties
\* the tasks send() has created
SentTasks == 1..nTasks

InQueue(w, t) == \E i \in 1..Len(outbound[w]) : outbound[w][i] = t

InMap(w, t) == \E i \in 1..Len(inbound[w]) : inbound[w][i] = t

\* worker w holds task t, queued or awaited
Held(w, t) == InQueue(w, t) \/ InMap(w, t)

Pending(t) == outcome[t] = "pending"

IsUpdate(t) == request[t].opcode = "UPDATE"

\* no two requests sent so far carry the same message ID
DistinctIds ==
    \A t1, t2 \in SentTasks : t1 # t2 => request[t1].id # request[t2].id

\* a request other than UPDATE, of at most 512 bytes, that no overflow
\* handler has passed to the TCP worker
UdpOnly(t) ==
    /\ t \in SentTasks
    /\ ~IsUpdate(t)
    /\ request[t].size <= UdpLimit
    /\ fallbacks[t] = 0

\* C1: every task send() accepted is eventually settled.  Between two
\* callbacks a task is reachable only through a worker's outbound queue or
\* inbound map, so a task that is pending and held by no worker can never be
\* settled: the claim needs every pending task to be held by some worker,
\* and needs it already of requests whose message IDs are distinct.
C1_PendingTaskIsHeld ==
    DistinctIds =>
        \A t \in SentTasks : Pending(t) => \E w \in Workers : Held(w, t)

\* C2: a request the UDP worker keeps is written to the UDP socket at most
\* three times, and while it is awaited its writes and the retries it has
\* left add up to three.  When the interval finds it timed out, it writes it
\* once more if a retry is left, and otherwise rejects it with
\* RequestUnanswered and writes nothing.  So a request that is never answered
\* is rejected with RequestUnanswered only at a timeout after its third write.
C2_ThreeTransmissions ==
    /\ [](\A t \in Tasks : UdpOnly(t) =>
            /\ sent[t]["UDP"] <= SendRetries + 1
            /\ InMap("UDP", t) =>
                  sent[t]["UDP"] + retriesLeft[t] = SendRetries + 1
            /\ outcome[t] = "RequestUnanswered" =>
                  sent[t]["UDP"] = SendRetries + 1 /\ retriesLeft[t] = -1)
    /\ [][\A t \in Tasks :
            /\ UdpOnly(t) /\ InMap("UDP", t) /\ age[t] = timeoutInMs
            /\ Interval("UDP")
            => IF retriesLeft[t] > 0
               THEN /\ sent'[t]["UDP"] = sent[t]["UDP"] + 1
                    /\ retriesLeft'[t] = retriesLeft[t] - 1
                    /\ outcome'[t] = outcome[t]
                    /\ (InMap("UDP", t))'
               ELSE /\ sent'[t] = sent[t]
                    /\ outcome'[t] = "RequestUnanswered"
                    /\ ~(Held("UDP", t))']_vars
    /\ [][\A t \in Tasks :
            UdpOnly(t) /\ Pending(t) /\ outcome'[t] = "RequestUnanswered" =>
               age[t] = timeoutInMs /\ sent'[t] = sent[t]]_vars

\* a request was written to the UDP socket three times and then rejected
C2_Witness ==
    \E t \in Tasks :
        /\ UdpOnly(t)
        /\ outcome[t] = "RequestUnanswered"
        /\ sent[t]["UDP"] = SendRetries + 1

\* worker w holds task t in the next state
HeldNext(w, t) ==
    \/ \E i \in 1..Len(outbound'[w]) : outbound'[w][i] = t
    \/ \E i \in 1..Len(inbound'[w]) : inbound'[w][i] = t

\* C3: send() leaves an UPDATE with no retries and on the TCP worker (or
\* rejected for its ID), and every other request with two retries and on the
\* UDP worker (or rejected for its ID); an UPDATE is never held by the UDP
\* worker, never written to the UDP socket, and never given a retry.
C3_RoutingByOpcode ==
    /\ [](\A t \in SentTasks : IsUpdate(t) =>
            /\ ~Held("UDP", t)
            /\ sent[t]["UDP"] = 0
            /\ retriesLeft[t] <= 0)
    /\ [][nTasks' = nTasks + 1 =>
            IF request'[nTasks + 1].opcode = "UPDATE"
            THEN /\ retriesLeft'[nTasks + 1] = 0
                 /\ HeldNext("TCP", nTasks + 1)
                       \/ outcome'[nTasks + 1] = "RequestIDInUse"
                 /\ ~HeldNext("UDP", nTasks + 1)
            ELSE /\ retriesLeft'[nTasks + 1] = SendRetries
                 /\ HeldNext("UDP", nTasks + 1)
                       \/ outcome'[nTasks + 1] = "RequestIDInUse"]_vars

\* an UPDATE was written to the TCP socket and another request to the UDP
\* socket
C3_Witness ==
    \E t, u \in SentTasks :
        /\ IsUpdate(t) /\ sent[t]["TCP"] >= 1 /\ sent[t]["UDP"] = 0
        /\ ~IsUpdate(u) /\ sent[u]["UDP"] >= 1 /\ Held("UDP", u)

\* C4: of the requests other than UPDATE, one of 512 bytes that the UDP worker
\* polled was written to the UDP socket; one of 513 bytes is never written to
\* the UDP socket and was enqueued on the TCP worker when the UDP worker
\* polled it; one of 65535 bytes is never written to the UDP socket, was
\* written to the TCP socket when the TCP worker polled it, and is never
\* rejected as too long; one of 65536 bytes is written to neither socket and
\* was rejected with RequestTooLong when the UDP worker polled it.  Which
\* task an overflow handler receives is looked up by message ID, so what is
\* said of that task is said of requests with distinct IDs.
C4_SizeLimits ==
    \A t \in SentTasks : ~IsUpdate(t) =>
        /\ request[t].size = UdpLimit =>
              /\ InMap("UDP", t) => sent[t]["UDP"] >= 1
              /\ DistinctIds => sent[t]["TCP"] = 0 /\ fallbacks[t] = 0
        /\ request[t].size = UdpLimit + 1 =>
              /\ sent[t]["UDP"] = 0
              /\ DistinctIds /\ InMap("UDP", t) => fallbacks[t] >= 1
        /\ request[t].size = BufferLength - 2 =>
              /\ sent[t]["UDP"] = 0
              /\ InMap("TCP", t) => sent[t]["TCP"] >= 1
              /\ DistinctIds => outcome[t] # "RequestTooLong"
        /\ request[t].size = BufferLength - 1 =>
              /\ sent[t]["UDP"] = 0 /\ sent[t]["TCP"] = 0
              /\ DistinctIds /\ InMap("UDP", t) =>
                    outcome[t] = "RequestTooLong" /\ fallbacks[t] = 0

\* a request of 512 bytes went out over UDP and one of 513 bytes over TCP
C4_Witness ==
    \E t, u \in SentTasks :
        /\ ~IsUpdate(t) /\ request[t].size = UdpLimit /\ sent[t]["UDP"] >= 1
        /\ ~IsUpdate(u) /\ request[u].size = UdpLimit + 1
        /\ fallbacks[u] >= 1 /\ sent[u]["TCP"] >= 1 /\ sent[u]["UDP"] = 0

\* a request of 65535 bytes went out over TCP
C4_WitnessLargest ==
    \E t \in SentTasks :
        /\ ~IsUpdate(t) /\ request[t].size = BufferLength - 2
        /\ sent[t]["TCP"] >= 1

\* a request of 65536 bytes was rejected as too long
C4_WitnessTooLong ==
    \E t \in SentTasks :
        /\ ~IsUpdate(t) /\ request[t].size = BufferLength - 1
        /\ outcome[t] = "RequestTooLong"

\* C5: a response with the TC flag set does not resolve the request: no
\* future is resolved with a truncated response.
C5_TruncatedNotResolved ==
    \A t \in SentTasks : outcome[t] = "resolved" => ~answer[t].tc

\* C6: a request the UDP overflow handler passed to the TCP worker is not
\* rejected with RequestIDInUse, and not with RequestUnanswered before it was
\* ever written to the TCP socket (a rejection only the UDP worker can
\* raise), already when all message IDs are distinct.
C6_FallbackNotReported ==
    DistinctIds =>
        \A t \in SentTasks : fallbacks[t] >= 1 =>
            /\ outcome[t] # "RequestIDInUse"
            /\ outcome[t] = "RequestUnanswered" => sent[t]["TCP"] >= 1

\* C7: a request the UDP overflow handler passed to the TCP worker is held
\* there with no retries left, and is written to the TCP socket at most once,
\* already when all message IDs are distinct.
C7_OverflowedWrittenOnce ==
    DistinctIds =>
        \A t \in SentTasks : fallbacks[t] >= 1 =>
            /\ Held("TCP", t) => retriesLeft[t] <= 0
            /\ sent[t]["TCP"] <= 1

\* the worker send() enqueues a request of that OPCODE on
WorkerOf(opcode) == IF opcode = "UPDATE" THEN "TCP" ELSE "UDP"

\* C8: when send() enqueues a task whose message ID is that of a task the
\* worker already holds, queued or awaited, the new task is rejected with
\* RequestIDInUse and the worker's queue and map stay as they were.
C8_DuplicateIdRejected ==
    [][nTasks' = nTasks + 1 =>
        \A e \in SentTasks :
            /\ Held(WorkerOf(request'[nTasks + 1].opcode), e)
            /\ request[e].id = request'[nTasks + 1].id
            => /\ outcome'[nTasks + 1] = "RequestIDInUse"
               /\ outbound' = outbound
               /\ inbound' = inbound]_vars

\* the TCP transport emits "error" in this step
TcpReportsError == faults' = Append(faults, "tcp error")

\* the UDP transport emits "error" in this step: its socket has closed after
\* an error
UdpReportsError == udpError # "none" /\ udpError' = "none"

\* the kinds a transport error rejects with
ErrorKinds == {"Other"} \cup {r.kind : r \in {x \in Reasons : x.resolverError}}

\* C9, the rejection: in the step in which a transport emits "error", every
\* pending task its worker held is rejected with the error's kind or with
\* Other, and the worker's queue and map are empty afterwards.
C9_ErrorRejectsHeld ==
    [][\A w \in Workers :
          (IF w = "TCP" THEN TcpReportsError ELSE UdpReportsError) =>
             /\ outbound'[w] = <<>> /\ inbound'[w] = <<>>
             /\ \A t \in SentTasks : Held(w, t) /\ Pending(t) =>
                   /\ outcome'[t] \in ErrorKinds
                   /\ w = "UDP" =>
                         outcome'[t] = IF udpError = "io" THEN "Other"
                                       ELSE udpError]_vars

\* C9: what a transport error rejected is rejected as C9_ErrorRejectsHeld
\* says, and no task rejected by a transport error is written to a socket
\* afterwards.
C9_RejectedNotTransmitted ==
    [][\A t \in SentTasks : outcome[t] \in ErrorKinds => sent'[t] = sent[t]]_vars

\* C10: in the step in which close() is called, both transports become
\* closed (not open, and no socket of theirs opening or open), and every
\* pending task that a worker held is rejected.
C10_CloseRejectsAll ==
    [][faults' = Append(faults, "close") =>
          /\ \A w \in Workers :
                /\ ~isOpen'[w]
                /\ sock'[w] \notin {"opening", "open"}
                /\ old'[w]["opening"] = 0 /\ old'[w]["open"] = 0
          /\ \A t \in SentTasks :
                (\E w \in Workers : Held(w, t)) => outcome'[t] # "pending"]_vars

\* the TCP transport emits "timeout" in this step: a socket of its has closed
\* after its idle timeout fired
TcpReportsTimeout == isTimedOut /\ ~isTimedOut'

TickDivisor == 20        \* Math.max(options.timeoutInMs / 20, 50)
MinTick == 50            \* Math.max(options.timeoutInMs / 20, 50)

\* options.timeoutInMs: below, at and above the value from which the
\* interval follows it, multiples of the interval and others, and the
\* default; those above are multiples of 20, for which the division is exact
Timeouts == {1, 120, 990, 1000, 1100, timeoutInMs}

\* the period of the interval: Math.max(options.timeoutInMs / 20, 50)
TickInterval(t) ==
    IF t \div TickDivisor >= MinTick THEN t \div TickDivisor ELSE MinTick

\* threshold > task.timeSentUnixMs
ExpiredLater(now, timeout, timeSent) == now - timeout > timeSent

\* threshold >= task.timeSentUnixMs, with threshold = now - timeoutInMs
Expired(now, timeout, timeSent) == now - timeout >= timeSent

\* the setInterval callback at time c.nextTick, for the one task: a retry is
\* enqueued, polled and stamped in the same callback
OnTick(c) ==
    LET n == [c EXCEPT !.now = c.nextTick,
                       !.nextTick = @ + TickInterval(c.timeout)]
    IN  IF Expired(n.now, n.timeout, n.timeSent)
        THEN IF n.retriesLeft > 0
             THEN [n EXCEPT !.retriesLeft = @ - 1, !.timeSent = n.now]
             ELSE [n EXCEPT !.retriesLeft = @ - 1, !.settledAt = n.now]
        ELSE n

\* a request just written at time 0, for every timeout, every number of
\* retries and every time the interval fires next
Clocks ==
    UNION {{[timeout |-> t, now |-> 0, nextTick |-> p, timeSent |-> 0,
             retries |-> r, retriesLeft |-> r, settledAt |-> -1] :
               p \in 1..TickInterval(t), r \in 0..SendRetries} :
           t \in Timeouts}

TimerInit ==
    /\ ResolverInit /\ clock \in Clocks /\ TcpIdle /\ IoIdle /\ TripIdle
    /\ RecordIdle /\ FrameIdle

\* the interval fires while the request is awaited
TimerTick ==
    /\ clock.settledAt < 0
    /\ clock' = OnTick(clock)
    /\ ResolverIdle
    /\ UNCHANGED <<tcp, io, trip, rr, frame>>

\* one request whose server never replies
SpecTimer == TimerInit /\ [][TimerTick]_vars

\* C12, as claimed: the request is rejected no later than
\* (retries + 1) * timeoutInMs plus one tick interval after it was first
\* written.
C12_SettlesWithinOneTick ==
    clock.settledAt >= 0 =>
       clock.settledAt <= (clock.retries + 1) * clock.timeout
                          + TickInterval(clock.timeout)

\* C12, amended: the request is rejected not before (retries + 1) *
\* timeoutInMs and no later than (retries + 1) * (timeoutInMs + tick
\* interval) after it was first written, and it is not awaited beyond that
\* time; when timeoutInMs is a multiple of the tick interval, it is
\* rejected no later than (retries + 1) * timeoutInMs plus one tick
\* interval.
C12_SettlesWithinTickPerSend ==
    LET sends == clock.retries + 1
        tick == TickInterval(clock.timeout)
    IN  /\ clock.settledAt < 0 => clock.now < sends * (clock.timeout + tick)
        /\ clock.settledAt >= 0 =>
              /\ clock.settledAt >= sends * clock.timeout
              /\ clock.settledAt <= sends * (clock.timeout + tick)
              /\ clock.retriesLeft = -1
              /\ clock.timeout % tick = 0 =>
                    clock.settledAt <= sends * clock.timeout + tick

\* a request with two retries is rejected later than three timeouts and one
\* tick interval after it was written
C12_Witness ==
    /\ clock.retries = SendRetries
    /\ clock.settledAt > (SendRetries + 1) * clock.timeout
                         + TickInterval(clock.timeout)

\* ------------------------------------- the receive parser of TransportTCP
\* The "data" handlers of TransportTCP.open, fed a stream of length-prefixed
\* messages in chunks.  tcp.messages are the bodies the server sent,
\* tcp.cuts the offsets at which the stream is split into chunks, tcp.pos
\* the bytes handled so far and tcp.fed the chunks handled so far.
\* receiveBuffer is options.buffer (tcp.usesScratch, contents tcp.scratch)
\* or a slice of a chunk (tcp.slice).  tcp.emitted are the buffers handed
\* to Message.read, each cut to the expected length, with the chunk in
\* whose handler it happened; tcp.thrown is set when a handler throws.

MaxMessages == 2     \* messages in one stream
MaxBody == 2         \* bytes in one message body: 1..MaxBody
ScratchLen == 8      \* bytes of options.buffer that are kept track of

\* the values of the body bytes
Bytes == {1, 2}

\* Op of the value of x: x is evaluated once, however often Op uses it
With(x, Op(_)) == CHOOSE y \in {Op(v) : v \in {x}} : TRUE

Min(a, b) == IF a <= b THEN a ELSE b
Max(a, b) == IF a >= b THEN a ELSE b

\* buffer.slice(n)
Drop(seq, n) == SubSeq(seq, Min(n, Len(seq)) + 1, Len(seq))
\* buffer.slice(0, n)
Take(seq, n) == SubSeq(seq, 1, Min(n, Len(seq)))

\* the frame of a message body: u16 big-endian length, then the body
Frame(body) == <<Len(body) \div 256, Len(body) % 256>> \o body

\* options.buffer when the first chunk arrives: TransportTCP.send has
\* framed a request in it
StaleScratch ==
    [i \in 1..ScratchLen |->
        IF i <= Len(Frame(<<1, 1, 1>>)) THEN Frame(<<1, 1, 1>>)[i] ELSE 0]

RECURSIVE Concat(_)
Concat(seqs) == IF seqs = <<>> THEN <<>> ELSE Head(seqs) \o Concat(Tail(seqs))

\* the byte stream of the messages
Stream(messages) == Concat([i \in 1..Len(messages) |-> Frame(messages[i])])

\* the offset at which the chunk that starts after pos ends
ChunkEnd(T, pos) ==
    LET ends == {c \in T.cuts \cup {Len(Stream(T.messages))} : c > pos}
    IN  CHOOSE c \in ends : \A d \in ends : c <= d

\* the chunk that starts after pos
Chunk(T, pos) == SubSeq(Stream(T.messages), pos + 1, ChunkEnd(T, pos))

ReceiveBuffer(T) == IF T.usesScratch THEN T.scratch ELSE T.slice
\* receiveBuffer.length
ReceiveLength(T) == IF T.usesScratch THEN BufferLength ELSE Len(T.slice)

\* what chunk.copy(receiveBuffer, targetStart, 0, sourceEnd) returns
Copied(T, chunk, targetStart, sourceEnd) ==
    Max(0, Min(Min(Len(chunk), sourceEnd), ReceiveLength(T) - targetStart))

\* seq with the first n elements of src written from offset at
Overlay(seq, at, src, n) ==
    [i \in 1..Len(seq) |-> IF i > at /\ i <= at + n THEN src[i - at] ELSE seq[i]]

\* what chunk.copy(receiveBuffer, targetStart, 0, sourceEnd) leaves
CopyInto(T, chunk, targetStart, sourceEnd) ==
    LET n == Copied(T, chunk, targetStart, sourceEnd)
    IN  IF T.usesScratch
        THEN [T EXCEPT !.scratch = Overlay(@, targetStart, chunk, n)]
        ELSE [T EXCEPT !.slice = Overlay(@, targetStart, chunk, n)]

\* receiveBuffer.readUInt16BE(0)
ReadUInt16BE(buffer) == buffer[1] * 256 + buffer[2]

RECURSIVE OnLengthData(_, _)
RECURSIVE OnMessageData(_, _)

\* onMessageData
OnMessageData(T, chunk) ==
    LET remaining == T.bytesExpected - T.bytesReceived
        E == [T EXCEPT
                 !.bytesExpected = -1, !.bytesReceived = 0,
                 !.emitted = Append(@, [body |-> Take(ReceiveBuffer(T),
                                                      T.bytesExpected),
                                        chunk |-> T.fed]),
                 !.listener = "length"]
    IN  IF remaining > 0
        THEN [CopyInto(T, chunk, remaining, Len(chunk))
                 EXCEPT !.bytesReceived =
                           @ + Copied(T, chunk, remaining, Len(chunk))]
        ELSE IF Len(chunk) > 0 THEN OnLengthData(E, chunk)
        ELSE E

\* onLengthData
OnLengthData(T, chunk) ==
    LET whole == T.bytesReceived = 0 /\ Len(chunk) >= 2
        offset == IF whole THEN 2
                  ELSE Copied(T, chunk, 0, 2 - T.bytesReceived)
        A == IF whole
             THEN [T EXCEPT !.usesScratch = FALSE, !.slice = chunk,
                            !.bytesReceived = 2]
             ELSE [CopyInto(T, chunk, 0, 2 - T.bytesReceived)
                      EXCEPT !.bytesReceived = @ + offset]
        expected == ReadUInt16BE(ReceiveBuffer(A))
        rest == Drop(chunk, offset)
        B == IF Len(rest) >= expected
             THEN [A EXCEPT !.bytesExpected = expected,
                            !.usesScratch = FALSE,
                            !.slice = Take(rest, expected),
                            !.bytesReceived = expected]
             ELSE [A EXCEPT !.bytesExpected = expected,
                            !.usesScratch = TRUE,
                            !.bytesReceived = 0]
    IN  IF A.bytesReceived # 2 THEN A
        ELSE IF ReceiveLength(A) < 2 THEN [A EXCEPT !.thrown = TRUE]
        ELSE OnMessageData([B EXCEPT !.listener = "message"],
                           IF Len(rest) >= expected THEN Drop(rest, expected)
                           ELSE rest)

\* the message bodies of a stream
Bodies == UNION {[1..k -> Bytes] : k \in 1..MaxBody}

\* the streams of messages the server sends
MessageSeqs == UNION {[1..n -> Bodies] : n \in 1..MaxMessages}

\* a connected socket before its first chunk, for every stream and every
\* way of splitting it into chunks
Parsers ==
    UNION {{[NoTcp EXCEPT !.messages = m, !.cuts = c,
                          !.scratch = StaleScratch] :
               c \in SUBSET (1..(Len(Stream(m)) - 1))} :
           m \in MessageSeqs}

ParserInit ==
    /\ ResolverInit /\ ClockIdle /\ tcp \in Parsers /\ IoIdle /\ TripIdle
    /\ RecordIdle /\ FrameIdle

\* the socket emits "data" with the next chunk to the listener registered
Data(listener) ==
    /\ tcp.listener = listener
    /\ ~tcp.thrown
    /\ tcp.pos < Len(Stream(tcp.messages))
    /\ LET T == [tcp EXCEPT !.pos = ChunkEnd(tcp, tcp.pos), !.fed = @ + 1]
       IN  tcp' = IF listener = "length"
                  THEN OnLengthData(T, Chunk(tcp, tcp.pos))
                  ELSE OnMessageData(T, Chunk(tcp, tcp.pos))
    /\ ResolverIdle
    /\ UNCHANGED <<clock, io, trip, rr, frame>>

LengthData == Data("length")
MessageData == Data("message")

\* a stream of messages received in chunks
SpecParser == ParserInit /\ [][LengthData \/ MessageData]_vars

\* the offset of the last byte of message i in the stream
EndOffset(T, i) == Len(Stream(SubSeq(T.messages, 1, i)))

\* the chunk that carries the byte at offset
ChunkOf(T, offset) ==
    1 + Cardinality({c \in T.cuts : c < offset})

\* the messages whose last byte has been handled, each with the chunk that
\* carried it
Completed(T) ==
    LET n == Cardinality({i \in 1..Len(T.messages) : EndOffset(T, i) <= T.pos})
    IN  [i \in 1..n |-> [body |-> T.messages[i],
                         chunk |-> ChunkOf(T, EndOffset(T, i))]]

\* no chunk ends inside a frame
WholeFrames(T) ==
    \A c \in T.cuts : \E i \in 1..Len(T.messages) : c = EndOffset(T, i)

\* C13: after every chunk, the parser has emitted exactly the bodies of the
\* messages whose last byte has arrived, each once, in stream order, each
\* in the handler of the chunk that carried its last byte, and no handler
\* has thrown.
C13_EmitsEachBodyOnce ==
    tcp.emitted = Completed(tcp) /\ ~tcp.thrown

\* C13 for chunks that hold whole frames: the same, of the streams in which
\* no chunk ends inside a frame.
C13_WholeFramesEmitted ==
    WholeFrames(tcp) => tcp.emitted = Completed(tcp) /\ ~tcp.thrown

\* ------------------------------------------------------ the Writer of io.ts
\* A Writer window over a sink and the calls made on it.  io.sink is the
\* sink's bytes, io.cursor and io.end the Writer's fields, io.overflowed its
\* flag (undefined counts as FALSE), io.thrown whether a call threw.  Kept
\* beside them: io.begin, the offset the Writer was constructed with;
\* io.touched, the sink indices (from 0) some call stored to; io.first, the
\* cursor and the sink when a write was first discarded; io.calls, the calls
\* made so far.  Strings are sequences of character codes below 128, which
\* Buffer.write stores as one byte each.

MaxCalls == 3        \* calls on one Writer
SinkLen == 8         \* sink.length
MaxOffset == 2       \* the offset a Writer is constructed with: 0..MaxOffset

Dot == 46            \* case "."
Backslash == 92      \* case "\\"
LabelMask == 63      \* this.writeStrings(labels, 0x3f)
StringMask == 255    \* lengthMask = 0xff

\* bytes [at, at + Len(bytes)) of the sink become bytes
Store(W, bytes) ==
    [W EXCEPT !.sink = Overlay(@, W.cursor, bytes, Len(bytes)),
              !.cursor = @ + Len(bytes),
              !.touched = @ \cup (W.cursor..(W.cursor + Len(bytes) - 1))]

\* this.overflowed = true; return
Discard(W) ==
    [W EXCEPT !.overflowed = TRUE,
              !.first = IF W.overflowed THEN @
                        ELSE [cursor |-> W.cursor, sink |-> W.sink]]

\* new Writer(sink, offset, end), end < 0 for undefined
NewWriter(sink, offset, end) ==
    [NoWriter EXCEPT !.sink = sink, !.begin = offset, !.cursor = offset,
                     !.end = IF end > 0 THEN Min(end, Len(sink))
                             ELSE Len(sink)]

\* Writer.offset()
WriterOffset(W) == W.cursor

\* the Writer that pop(length) returns
WriterPopped(W, length) ==
    With(W, LAMBDA V :
        [NewWriter(V.sink, V.cursor, V.cursor + length)
            EXCEPT !.touched = V.touched, !.calls = V.calls])

\* the Writer after pop(length)
WriterPop(W, length) == [W EXCEPT !.cursor = @ + length]

\* Writer.write that discards every write after the first discarded one
WriterWriteSticky(W, source) ==
    With(W, LAMBDA V :
        IF V.overflowed \/ V.cursor + Len(source) > V.end THEN Discard(V)
        ELSE Store(V, source))

\* Writer.write
WriterWrite(W, source) ==
    With(W, LAMBDA V :
        IF V.cursor + Len(source) > V.end THEN Discard(V)
        ELSE Store(V, source))

\* Writer.writeU8
WriterWriteU8(W, u8) ==
    With(W, LAMBDA V :
        IF V.cursor + 1 > V.end THEN Discard(V) ELSE Store(V, <<u8>>))

\* Writer.writeU16
WriterWriteU16(W, u16) ==
    With(W, LAMBDA V :
        IF V.cursor + 2 > V.end THEN Discard(V)
        ELSE Store(V, <<u16 \div 256, u16 % 256>>))

\* Writer.writeU32
WriterWriteU32(W, u32) ==
    With(W, LAMBDA V :
        IF V.cursor + 4 > V.end THEN Discard(V)
        ELSE Store(V, <<u32 \div 16777216, (u32 \div 65536) % 256,
                        (u32 \div 256) % 256, u32 % 256>>))

\* A 48-bit word is kept as its three 16-bit limbs <<high, middle, low>>,
\* each in 0..65535: 2^48 is beyond the integers of the model checker.
\* Word48(n) is the word of an integer n below 2^31.
Word48(n) == <<0, n \div 65536, n % 65536>>

\* u48 & 0xffffffff: the low 32 bits as a signed 32-bit integer
LowInt32(u48) ==
    IF u48[2] >= 32768 THEN ((u48[2] - 65536) * 65536) + u48[3]
    ELSE (u48[2] * 65536) + u48[3]

\* Writer.writeU48: writeUInt16BE stores the integer part of
\* u48 / 4294967296; writeUInt32BE throws on a negative value, after the
\* two high bytes were stored
WriterWriteU48(W, u48) ==
    With(W, LAMBDA V :
        IF V.cursor + 6 > V.end THEN Discard(V)
        ELSE IF LowInt32(u48) < 0
        THEN [Store(V, <<u48[1] \div 256, u48[1] % 256>>)
                 EXCEPT !.thrown = TRUE]
        ELSE Store(V, <<u48[1] \div 256, u48[1] % 256,
                        LowInt32(u48) \div 16777216,
                        (LowInt32(u48) \div 65536) % 256,
                        (LowInt32(u48) \div 256) % 256,
                        LowInt32(u48) % 256>>))

\* this.cursor += this.sink.write(string, this.cursor, length): as many
\* bytes as the sink takes, whatever end is; it throws when the cursor is
\* past the sink
SinkWrite(W, string, length) ==
    With(W, LAMBDA V :
        IF V.cursor > Len(V.sink) /\ Len(string) > 0
        THEN [V EXCEPT !.thrown = TRUE]
        ELSE Store(V, Take(string,
                           Min(length, Max(0, Len(V.sink) - V.cursor)))))

\* Writer.writeString
WriterWriteString(W, string) ==
    With(string, LAMBDA s :
        SinkWrite(WriterWriteU8(W, Len(s)), s, Len(s)))

\* string.length & lengthMask, for the masks 0x3f and 0xff
Masked(length, lengthMask) == length % (lengthMask + 1)

\* the callback of strings.forEach in writeStrings
RECURSIVE WriteEach(_, _, _)
WriteEach(W, strings, lengthMask) ==
    IF strings = <<>> THEN W
    ELSE LET length == Masked(Len(Head(strings)), lengthMask)
         IN  WriteEach(IF length > 0
                       THEN SinkWrite(WriterWriteU8(W, length),
                                      Head(strings), length)
                       ELSE W,
                       Tail(strings), lengthMask)

\* Writer.writeStrings
WriterWriteStrings(W, strings, lengthMask) ==
    With(strings, LAMBDA s : WriterWriteU8(WriteEach(W, s, lengthMask), 0))

\* The loop of writeName, label by label.  A '\' makes the loop take the
\* character after it as it is, so the character at index i (from 1) is
\* taken as it is when an odd number of '\' stand right before it.
Escaped(name, i) ==
    LET others == {j \in 1..(i - 1) : name[j] # Backslash}
        last == IF others = {} THEN 0
                ELSE CHOOSE j \in others : \A k \in others : k <= j
    IN  (i - 1 - last) % 2 = 1

\* case ".": the indices at which the loop pushes the label
Separators(name) ==
    {i \in 1..Len(name) : name[i] = Dot /\ ~Escaped(name, i)}

\* label += c, label += name.charAt(i): the characters the loop appends
\* between the indices from and to
LabelBetween(name, from, to) ==
    LET indices == SelectSeq([i \in 1..(to - from - 1) |-> from + i],
                             LAMBDA i : Escaped(name, i) \/ name[i] # Backslash)
    IN  [k \in 1..Len(indices) |-> name[indices[k]]]

\* the labels writeName collects: one for every separator, and the rest of
\* the name if it is not empty
Labels(name) ==
    LET seps == Separators(name)
        sep(k) == IF k = 0 THEN 0
                  ELSE CHOOSE i \in seps : Cardinality({j \in seps : j < i}) = k - 1
        pushed == [k \in 1..Cardinality(seps) |->
                      LabelBetween(name, sep(k - 1), sep(k))]
        rest == LabelBetween(name, sep(Cardinality(seps)), Len(name) + 1)
    IN  IF Len(rest) > 0 THEN Append(pushed, rest) ELSE pushed

\* Writer.writeName
WriterWriteName(W, name) ==
    With(name, LAMBDA n : WriterWriteStrings(W, Labels(n), LabelMask))

\* the sinks: Buffer.alloc(SinkLen)
Sinks == {[i \in 1..SinkLen |-> 0]}

\* the Writers callers construct: new Writer(sink), new Writer(sink, offset)
\* and new Writer(sink, offset, end) with offset <= end
Writers ==
    UNION {{NewWriter(sink, offset, end) :
               end \in {-1} \cup (Max(offset, 1)..SinkLen)} :
           sink \in Sinks, offset \in 0..MaxOffset}

\* the arguments of the calls
Buffers == {<<>>, <<7>>, <<7, 7>>, <<7, 7, 7>>}
Texts == {<<>>, <<97>>, <<97, 98>>}
TextLists == {<<>>, <<<<97>>>>, <<<<97>>, <<98, 99>>>>}
Names == {<<>>, <<97, Dot>>, <<97, Dot, 98>>, <<97, Backslash, Dot, 98, Dot>>}
Lengths == 0..2

WriterInit ==
    /\ ResolverInit /\ ClockIdle /\ TcpIdle /\ io \in Writers /\ TripIdle
    /\ RecordIdle /\ FrameIdle

\* the call leaves the Writer W
Called(call, W) ==
    /\ Len(io.calls) < MaxCalls
    /\ ~io.thrown
    /\ io' = [W EXCEPT !.calls = Append(io.calls, call)]
    /\ ResolverIdle
    /\ UNCHANGED <<clock, tcp, trip, rr, frame>>

CallWrite ==
    \E b \in Buffers : Called([op |-> "write", arg |-> b], WriterWrite(io, b))
CallWriteU8 ==
    Called([op |-> "writeU8", arg |-> <<7>>], WriterWriteU8(io, 7))
CallWriteU16 ==
    Called([op |-> "writeU16", arg |-> <<1799>>], WriterWriteU16(io, 1799))
CallWriteU32 ==
    Called([op |-> "writeU32", arg |-> <<117901063>>],
           WriterWriteU32(io, 117901063))
CallWriteU48 ==
    Called([op |-> "writeU48", arg |-> <<117901063>>],
           WriterWriteU48(io, Word48(117901063)))
CallWriteString ==
    \E t \in Texts :
        Called([op |-> "writeString", arg |-> t], WriterWriteString(io, t))
CallWriteStrings ==
    \E l \in TextLists :
        Called([op |-> "writeStrings", arg |-> <<Len(l)>>],
               WriterWriteStrings(io, l, StringMask))
CallWriteName ==
    \E n \in Names :
        Called([op |-> "writeName", arg |-> n], WriterWriteName(io, n))
\* pop(length), and the calls go on on the Writer popped from
CallPop ==
    \E n \in Lengths : Called([op |-> "pop", arg |-> <<n>>], WriterPop(io, n))
\* pop(length), and the calls go on on the Writer it returned
CallPopped ==
    \E n \in Lengths :
        Called([op |-> "popped", arg |-> <<n>>], WriterPopped(io, n))

WriterNext ==
    \/ CallWrite \/ CallWriteU8 \/ CallWriteU16 \/ CallWriteU32 \/ CallWriteU48
    \/ CallWriteString \/ CallWriteStrings \/ CallWriteName
    \/ CallPop \/ CallPopped

\* a Writer and up to MaxCalls calls on it
SpecWriter == WriterInit /\ [][WriterNext]_vars

\* the calls that compare the cursor with end before they store
Checked == {"write", "writeU8", "writeU16", "writeU32", "writeU48"}

\* the bytes a checked call stores
CallSize(call) ==
    IF call.op = "write" THEN Len(call.arg)
    ELSE IF call.op = "writeU8" THEN 1
    ELSE IF call.op = "writeU16" THEN 2
    ELSE IF call.op = "writeU32" THEN 4
    ELSE 6

\* no call so far was pop
NoPop == \A i \in 1..Len(io.calls) : io.calls[i].op # "pop"

C16_CursorWithinWindow ==
    NoPop =>
       /\ io.begin <= io.cursor /\ io.cursor <= io.end
       /\ \A i \in io.touched : i < io.end

\* C16 for the calls that compare the cursor with end: the same, of the
\* Writers on which only write, writeU8, writeU16, writeU32 and writeU48
\* were called.
C16_CheckedWritesWithinWindow ==
    (\A i \in 1..Len(io.calls) : io.calls[i].op \in Checked \cup {"popped"}) =>
       /\ io.begin <= io.cursor /\ io.cursor <= io.end
       /\ \A i \in io.touched : i < io.end

\* the one call made on the Writer was write(b), and b fitted
WroteOnly(b) ==
    /\ io.calls = <<[op |-> "write", arg |-> b]>>
    /\ io.begin + Len(b) <= io.end

\* C17: for every Writer constructed at any offset and every b that fits,
\* after write(b) the bytes from the offset on are b and offset() is the
\* length of b.
C17_OffsetIsBytesWritten ==
    \A b \in Buffers :
        WroteOnly(b) =>
           /\ SubSeq(io.sink, io.begin + 1, io.begin + Len(b)) = b
           /\ WriterOffset(io) = Len(b)

\* C17 with offset() as the code computes it: the bytes from the offset on
\* are b, and offset() is the offset the Writer was constructed at plus the
\* length of b.
C17_OffsetIsCursor ==
    \A b \in Buffers :
        WroteOnly(b) =>
           /\ SubSeq(io.sink, io.begin + 1, io.begin + Len(b)) = b
           /\ WriterOffset(io) = io.begin + Len(b)

\* ------------------------------------------------ names through io.ts
\* A domain name on its way through Reader.readName and Writer.writeName.
\* trip.wire is the wire form read from (empty when the trip starts from a
\* string), trip.text the string readName returned or a caller passed,
\* trip.written the bytes writeName stored in a fresh sink, trip.failed
\* whether writeName set overflowed or threw, trip.step what comes next.

MaxLabels == 2       \* labels in a name read from the wire
MaxLabel == 2        \* bytes in a label read from the wire: 1..MaxLabel
LongestLabel == 63   \* labels are at most 63 bytes long: length > 63
NameSinkLen == 72    \* the length of the sink names are written to

\* the bytes of the labels: a letter, '.' and '\'
LabelBytes == {97, Dot, Backslash}

\* the label "aa...a" of n bytes
Letters(n) == [i \in 1..n |-> 97]

\* the wire form of a name of these labels: each label after its length,
\* then the root's length 0
Encode(labels) ==
    Concat([i \in 1..Len(labels) |-> <<Len(labels[i])>> \o labels[i]]) \o <<0>>

\* first index of a '.' in label, 0 if none
FirstDot(label) ==
    IF \E i \in 1..Len(label) : label[i] = Dot
    THEN CHOOSE i \in 1..Len(label) :
            label[i] = Dot /\ \A j \in 1..(i - 1) : label[j] # Dot
    ELSE 0

\* .replace(".", "\\."): the first '.' of the label becomes "\."
Escape(label) ==
    IF FirstDot(label) = 0 THEN label
    ELSE SubSeq(label, 1, FirstDot(label) - 1) \o <<Backslash, Dot>>
         \o SubSeq(label, FirstDot(label) + 1, Len(label))

\* Reader.readU16 with the cursor at cursor (from 0): the value it returns
ReadU16(source, cursor, end) ==
    IF cursor + 2 > end THEN 0
    ELSE (source[cursor + 1] * 256) + source[cursor + 2]

\* Reader.readU32: the value it returns
ReadU32(source, cursor, end) ==
    IF cursor + 4 > end THEN 0
    ELSE (source[cursor + 1] * 16777216) + (source[cursor + 2] * 65536)
         + (source[cursor + 3] * 256) + source[cursor + 4]

\* the cursor after a read of size bytes by readU8..readU48
AfterRead(cursor, end, size) ==
    IF cursor + size > end THEN cursor ELSE cursor + size

\* Reader.readName with the cursor at cursor (from 0) and the name read so
\* far: the name it returns
RECURSIVE ReaderReadName(_, _, _, _)
ReaderReadName(source, cursor, end, name) ==
    IF cursor + 1 > end \/ source[cursor + 1] = 0 THEN name
    ELSE LET length == source[cursor + 1]
         IN  IF length > LongestLabel
             THEN IF length >= 192
                  THEN name \o ReaderReadName(
                                  source,
                                  ReadU16(source, cursor, end) % 16384,
                                  Len(source), <<>>)
                  ELSE name
             ELSE ReaderReadName(
                     source, Min(end, cursor + 1 + length), end,
                     name \o Escape(SubSeq(source, cursor + 2,
                                           Min(end, cursor + 1 + length)))
                          \o <<Dot>>)

\* the names on the wire: 1..MaxLabels labels of 1..MaxLabel bytes
WireLabels == UNION {[1..k -> LabelBytes] : k \in 1..MaxLabel}
WireNames == UNION {[1..n -> WireLabels] : n \in 1..MaxLabels}

\* the names callers pass to writeName: labels of 63, 64 and 65 bytes
TextNames ==
    {Letters(n) \o <<Dot>> : n \in LongestLabel..(LongestLabel + 2)}
    \cup {<<98, Dot>> \o Letters(LongestLabel + 1) \o <<Dot>>}

Trips ==
    {[NoTrip EXCEPT !.wire = Encode(labels), !.step = "wire"] :
        labels \in WireNames}
    \cup {[NoTrip EXCEPT !.text = text, !.step = "text"] : text \in TextNames}

NamesInit ==
    /\ ResolverInit /\ ClockIdle /\ TcpIdle /\ IoIdle /\ trip \in Trips
    /\ RecordIdle /\ FrameIdle

\* new Reader(wire).readName()
ReadName ==
    /\ trip.step = "wire"
    /\ trip' = [trip EXCEPT
                   !.text = ReaderReadName(trip.wire, 0, Len(trip.wire), <<>>),
                   !.step = "text"]
    /\ ResolverIdle
    /\ UNCHANGED <<clock, tcp, io, rr, frame>>

\* new Writer(Buffer.alloc(NameSinkLen)).writeName(text)
WriteName ==
    /\ trip.step = "text"
    /\ LET W == WriterWriteName(
                   NewWriter([i \in 1..NameSinkLen |-> 0], 0, -1), trip.text)
       IN  trip' = [trip EXCEPT
                       !.written = SubSeq(W.sink, 1, W.cursor),
                       !.failed = W.overflowed \/ W.thrown,
                       !.step = "written"]
    /\ ResolverIdle
    /\ UNCHANGED <<clock, tcp, io, rr, frame>>

\* names read from the wire and written back, and names written
SpecNames == NamesInit /\ [][ReadName \/ WriteName]_vars

\* the longest label of the name a caller passed
Longest(text) ==
    LET labels == Labels(text)
    IN  CHOOSE n \in 0..Len(text) :
           /\ \E i \in 1..Len(labels) : Len(labels[i]) = n
           /\ \A i \in 1..Len(labels) : Len(labels[i]) <= n

\* C18: writeName of a name whose longest label has 63 bytes stores the
\* name's wire form, and writeName of a name with a label of 64 bytes or
\* more fails: it stores no name's wire form without failing.
C18_LongLabelFails ==
    trip.step = "written" /\ trip.wire = <<>> =>
       IF Longest(trip.text) <= LongestLabel
       THEN /\ trip.written = Encode(Labels(trip.text))
            /\ ~trip.failed
       ELSE trip.failed

\* C18 for labels of 63 bytes: writeName stores the name's wire form.
C18_LongestLabelEncoded ==
    trip.step = "written" /\ trip.wire = <<>>
    /\ Longest(trip.text) <= LongestLabel =>
       /\ trip.written = Encode(Labels(trip.text))
       /\ ~trip.failed

\* C19: the string readName returns for an uncompressed name, passed to
\* writeName, gives the bytes the name was read from.
C19_NameRoundTrips ==
    trip.step = "written" /\ trip.wire # <<>> =>
       trip.written = trip.wire /\ ~trip.failed

\* the labels of the name on the wire hold no '\' and at most one '.' each
PlainLabels(wire) ==
    \A labels \in WireNames :
        Encode(labels) = wire =>
           \A i \in 1..Len(labels) :
               /\ \A j \in 1..Len(labels[i]) : labels[i][j] # Backslash
               /\ Cardinality({j \in 1..Len(labels[i]) : labels[i][j] = Dot}) <= 1

\* C19 for labels without '\' and with at most one '.': the same.
C19_PlainNameRoundTrips ==
    trip.step = "written" /\ trip.wire # <<>> /\ PlainLabels(trip.wire) =>
       trip.written = trip.wire /\ ~trip.failed

\* ------------------------------------------------ ResourceRecord
\* A resource record written by ResourceRecord.write, read back by
\* ResourceRecord.read and written again.  rr.record is the record,
\* rr.bytes what write stored, rr.failed whether the Writer overflowed or
\* threw, rr.back the record read from rr.bytes, rr.again what writing
\* rr.back stored.  ResourceData.ts is not part of the sources: the RDATA
\* is that of an A record, the four bytes of an address, written with
\* Writer.write and read with Reader.read, or that of a TSIG record.

RecordSinkLen == 40  \* the length of the sink records are written to
TypeA == 1           \* Type.A
TypeSOA == 6         \* Type.SOA
TypeTSIG == 250      \* Type.TSIG
DClassIN == 1        \* DClass.IN
DClassANY == 255     \* DClass.ANY

\* name.endsWith(".")
EndsWithDot(name) == Len(name) > 0 /\ name[Len(name)] = Dot

\* new A(address), with the address as its four bytes
NewA(address) == [kind |-> "A", address |-> address]

\* a record's rdata when it has none
NoData == [kind |-> "none"]

\* rdata ? rdata.byteLength : 0
ResourceDataLength(rdata) ==
    IF rdata.kind = "none" THEN 0
    ELSE IF rdata.kind = "A" THEN Len(rdata.address)
    ELSE Len(rdata.algorithm) + (IF EndsWithDot(rdata.algorithm) THEN 1 ELSE 2)
         + 16 + Len(rdata.mac) + Len(rdata.other)

\* new ResourceRecord(name, type, dclass, ttl, rdata)
NewResourceRecord(name, type, dclass, ttl, rdata) ==
    [name |-> name, type |-> type, dclass |-> dclass, ttl |-> ttl,
     rdata |-> rdata,
     byteLength |-> 10 + Len(name) + (IF EndsWithDot(name) THEN 1 ELSE 2)
                    + ResourceDataLength(rdata)]

\* the cursor after Reader.readName with the cursor at cursor
RECURSIVE ReaderAfterName(_, _, _)
ReaderAfterName(source, cursor, end) ==
    IF cursor + 1 > end THEN cursor
    ELSE LET length == source[cursor + 1]
         IN  IF length = 0 THEN cursor + 1
             ELSE IF length > LongestLabel THEN AfterRead(cursor, end, 2)
             ELSE ReaderAfterName(source, Min(end, cursor + 1 + length), end)

\* the end of new Reader(source, offset, end)
ReaderEnd(source, end) == IF end > 0 THEN Min(end, Len(source)) ELSE Len(source)

\* readResourceData(type, rdlength, rdreader) of an A record
ReadResourceData(source, cursor, end, rdlength) ==
    NewA(SubSeq(source, cursor + 1, Min(end, cursor + rdlength)))

\* rdata.write(writer) of a TSIG record: the algorithm name, the time
\* signed, the fudge, the MAC after its size, the original ID, the error
\* and the other data after its length
TsigWrite(W, rdata) ==
    WriterWrite(
        WriterWriteU16(
            WriterWriteU16(
                WriterWriteU16(
                    WriterWrite(
                        WriterWriteU16(
                            WriterWriteU16(
                                WriterWriteU48(
                                    WriterWriteName(W, rdata.algorithm),
                                    Word48(rdata.timeSigned)),
                                rdata.fudge),
                            Len(rdata.mac)),
                        rdata.mac),
                    rdata.originalId),
                rdata.error),
            Len(rdata.other)),
        rdata.other)

\* rdata.write(writer)
ResourceDataWrite(W, rdata) ==
    IF rdata.kind = "A" THEN WriterWrite(W, rdata.address)
    ELSE TsigWrite(W, rdata)

\* ResourceRecord.read(new Reader(source))
ResourceRecordRead(source) ==
    LET end == Len(source)
        name == ReaderReadName(source, 0, end, <<>>)
        atType == ReaderAfterName(source, 0, end)
        atClass == AfterRead(atType, end, 2)
        atTtl == AfterRead(atClass, end, 2)
        atLength == AfterRead(atTtl, end, 4)
        atData == AfterRead(atLength, end, 2)
        rdlength == ReadU16(source, atLength, end)
    IN  NewResourceRecord(
            name, ReadU16(source, atType, end), ReadU16(source, atClass, end),
            ReadU32(source, atTtl, end),
            ReadResourceData(source, atData,
                             ReaderEnd(source, atData + rdlength), rdlength))

\* writer.offset() - offset, with the Writer after rdata.write
RdLengthWhole(body, offset) == WriterOffset(body) - body.begin
RdLength(body, offset) == WriterOffset(body) - offset

\* ResourceRecord.write(writer)
ResourceRecordWrite(W, r) ==
    With(r, LAMBDA record :
    With(WriterWriteU32(
             WriterWriteU16(
                 WriterWriteU16(WriterWriteName(W, record.name), record.type),
                 record.dclass),
             record.ttl), LAMBDA head :
    IF record.rdata.kind = "none" THEN WriterWriteU16(head, 0)
    ELSE
    With(ResourceDataWrite(WriterPop(head, 2), record.rdata), LAMBDA body :
        LET rdlengthWriter == WriterPopped(head, 2)
            offset == WriterOffset(WriterPop(head, 2))
            rdlength == RdLength(body, offset)
        IN  [body EXCEPT
                !.sink = WriterWriteU16(
                             [rdlengthWriter EXCEPT !.sink = body.sink],
                             rdlength).sink])))

\* what a Writer on an empty sink holds after r.write(writer)
Written(r) ==
    With(ResourceRecordWrite(
             NewWriter([i \in 1..RecordSinkLen |-> 0], 0, -1), r), LAMBDA W :
        [bytes |-> SubSeq(W.sink, 1, W.cursor),
         failed |-> W.overflowed \/ W.thrown])

\* the names of the records: with and without a trailing dot, the root,
\* and labels with escaped characters
RecordNames ==
    {<<97, Dot>>, <<97>>, <<97, Dot, 98, Dot>>, <<97, Dot, 98>>, <<Dot>>, <<>>,
     <<97, Backslash, Dot, 98, Dot>>, <<97, Backslash, Backslash, Dot>>,
     <<Backslash, Dot, Backslash, Dot, Dot>>}

Addresses == {NewA(<<127, 0, 0, 1>>), NewA(<<10, 0, 2, 255>>)}

Records ==
    {NewResourceRecord(name, TypeA, dclass, ttl, rdata) :
        name \in RecordNames, dclass \in {DClassIN, DClassANY},
        ttl \in {0, 30, 65536}, rdata \in Addresses}

RecordInit ==
    /\ ResolverInit /\ ClockIdle /\ TcpIdle /\ IoIdle /\ TripIdle /\ FrameIdle
    /\ rr \in {[NoRecord EXCEPT !.record = r, !.step = "record"] : r \in Records}

\* r.write(new Writer(sink))
RecordWrite ==
    /\ rr.step = "record"
    /\ rr' = [rr EXCEPT !.bytes = Written(rr.record).bytes,
                        !.failed = Written(rr.record).failed,
                        !.step = "written"]
    /\ ResolverIdle
    /\ UNCHANGED <<clock, tcp, io, trip, frame>>

\* ResourceRecord.read(new Reader(bytes))
RecordRead ==
    /\ rr.step = "written"
    /\ rr' = [rr EXCEPT !.back = ResourceRecordRead(rr.bytes), !.step = "read"]
    /\ ResolverIdle
    /\ UNCHANGED <<clock, tcp, io, trip, frame>>

\* the record read, written to a new Writer
RecordWriteAgain ==
    /\ rr.step = "read"
    /\ rr' = [rr EXCEPT !.again = Written(rr.back).bytes,
                        !.failed = @ \/ Written(rr.back).failed,
                        !.step = "rewritten"]
    /\ ResolverIdle
    /\ UNCHANGED <<clock, tcp, io, trip, frame>>

\* records written, read back and written again
SpecRecords ==
    RecordInit /\ [][RecordWrite \/ RecordRead \/ RecordWriteAgain]_vars

\* C20: the record read from the bytes a record's write stored equals the
\* record in every field, and writing it again stores the same bytes.
C20_RecordRoundTrips ==
    /\ rr.step \in {"read", "rewritten"} => rr.back = rr.record /\ ~rr.failed
    /\ rr.step = "rewritten" => rr.again = rr.bytes

\* the name is as readName returns it
AsRead(name) ==
    LET wire == Encode(Labels(name))
    IN  ReaderReadName(wire, 0, Len(wire), <<>>) = name

\* C20 for records whose name is as readName returns it: the same; and of
\* every record the type, class, ttl and rdata are read back.
C20_ReadNamesRoundTrip ==
    /\ rr.step \in {"read", "rewritten"} =>
          /\ ~rr.failed
          /\ rr.back = [rr.record EXCEPT !.name = rr.back.name,
                                          !.byteLength = rr.back.byteLength]
          /\ AsRead(rr.record.name) => rr.back = rr.record
    /\ rr.step = "rewritten" /\ AsRead(rr.record.name) => rr.again = rr.bytes

\* ------------------------------------------------ TransportTCP.send
\* One request sent by TransportTCP.send.  frame.message is the request,
\* frame.buffer the options.buffer it is written to, frame.signed the bytes
\* send passed to the signer, frame.wire the bytes passed to socket.write,
\* frame.outcome "written", "overflow" (the event emitted) or "thrown".
\* Message.ts and TransactionSigner.ts are not part of the sources.  The
\* message is written as the header and the records of the four sections;
\* frame.writeSigns says whether Message.write itself appends a TSIG record
\* of a signed UPDATE and counts it, as it did before send signed.  The
\* signer's record is the one of the record tests; its MAC stands for the
\* HMAC: three bytes that depend on the length, the ARCOUNT and the last
\* byte of what is signed.

OpCodeQuery == 0     \* OpCode.QUERY
OpCodeUpdate == 5    \* OpCode.UPDATE
ArcountOffset == 10  \* the offset of ARCOUNT in a message
PrefixLen == 2       \* the length prefix: new Writer(buffer, 2)

\* the key's name "k." and the algorithm's name "h."
KeyName == <<107, Dot>>
Algorithm == <<104, Dot>>

\* the flags of a request: the opcode in bits 11 to 14
FlagsOf(opcode) == opcode * 2048

\* the MAC of bytes
Mac(bytes) ==
    With(bytes, LAMBDA b :
        <<Len(b) % 256,
          IF Len(b) >= ArcountOffset + 2 THEN b[ArcountOffset + 2] ELSE 0,
          IF Len(b) > 0 THEN b[Len(b)] ELSE 0>>)

\* transactionSigner.sign(id, bytes): the TSIG record
Sign(id, bytes) ==
    NewResourceRecord(
        KeyName, TypeTSIG, DClassANY, 0,
        [kind |-> "TSIG", algorithm |-> Algorithm, timeSigned |-> 100,
         fudge |-> 300, mac |-> Mac(bytes), originalId |-> id, error |-> 0,
         other |-> <<>>])

\* ResourceRecord.write(writer, true)
QuestionWrite(W, r) ==
    WriterWriteU16(WriterWriteU16(WriterWriteName(W, r.name), r.type), r.dclass)

\* the questions of a message, written in order
RECURSIVE WriteQuestions(_, _)
WriteQuestions(W, records) ==
    IF records = <<>> THEN W
    ELSE WriteQuestions(QuestionWrite(W, Head(records)), Tail(records))

\* the records of another section, written in order
RECURSIVE WriteRecords(_, _)
WriteRecords(W, records) ==
    IF records = <<>> THEN W
    ELSE WriteRecords(ResourceRecordWrite(W, Head(records)), Tail(records))

\* buffer.writeUInt16BE(value, offset), which throws unless Fits
BufferWriteUInt16BE(buffer, value, offset) ==
    Overlay(buffer, offset, <<value \div 256, value % 256>>, 2)
Fits(buffer, offset) == offset + 2 <= Len(buffer)

\* buffer.slice(start, end)
BufferSlice(buffer, start, end) == SubSeq(buffer, start + 1, Min(end, Len(buffer)))

\* request.write(writer), with signs for a Message.write that signs
MessageWrite(W, m, signs) ==
    With(WriteRecords(
             WriteRecords(
                 WriteRecords(
                     WriteQuestions(
                         WriterWriteU16(
                             WriterWriteU16(
                                 WriterWriteU16(
                                     WriterWriteU16(
                                         WriterWriteU16(
                                             WriterWriteU16(W, m.id),
                                             FlagsOf(m.opcode)),
                                         Len(m.questions)),
                                     Len(m.answers)),
                                 Len(m.authorities)),
                             Len(m.additionals)),
                         m.questions),
                     m.answers),
                 m.authorities),
             m.additionals), LAMBDA records :
        IF signs /\ m.signer /\ m.opcode = OpCodeUpdate
        THEN With(ResourceRecordWrite(
                      records,
                      Sign(m.id, BufferSlice(records.sink, W.cursor,
                                             WriterOffset(records)))),
                  LAMBDA signed :
                 IF Fits(signed.sink, W.cursor + ArcountOffset)
                 THEN [signed EXCEPT
                          !.sink = BufferWriteUInt16BE(
                                       @, Len(m.additionals) + 1,
                                       W.cursor + ArcountOffset)]
                 ELSE signed)
        ELSE records)

\* TransportTCP.send(request) that counts the TSIG record at offset arcount
\* of the buffer
TcpSend(F, arcount) ==
    With(MessageWrite(NewWriter(F.buffer, PrefixLen, -1), F.message,
                      F.writeSigns), LAMBDA writer :
    With(BufferSlice(writer.sink, PrefixLen, WriterOffset(writer)),
         LAMBDA signed :
    With(IF F.message.signer
         THEN ResourceRecordWrite(writer, Sign(F.message.id, signed))
         ELSE writer, LAMBDA written :
        LET counted == IF F.message.signer /\ Fits(F.buffer, arcount)
                       THEN BufferWriteUInt16BE(
                                written.sink, Len(F.message.additionals) + 1,
                                arcount)
                       ELSE written.sink
            framed == BufferWriteUInt16BE(
                          counted, WriterOffset(written) - PrefixLen, 0)
        IN  IF written.thrown \/ (F.message.signer /\ ~Fits(F.buffer, arcount))
            THEN [F EXCEPT !.outcome = "thrown", !.step = "sent"]
            ELSE IF written.overflowed
            THEN [F EXCEPT !.signed = IF F.message.signer THEN signed ELSE <<>>,
                           !.outcome = "overflow", !.step = "sent"]
            ELSE [F EXCEPT !.signed = IF F.message.signer THEN signed ELSE <<>>,
                           !.wire = BufferSlice(framed, 0, WriterOffset(written)),
                           !.outcome = "written", !.step = "sent"])))

\* TransportTCP.send that counts the TSIG record at offset 10 of the buffer
TransportTcpSendAtTen(F) == TcpSend(F, ArcountOffset)

\* TransportTCP.send(request): buffer.writeUInt16BE(..., 10 + 2)
TransportTcpSend(F) == TcpSend(F, ArcountOffset + PrefixLen)

\* the requests: queries and updates of one zone, with at most one update
\* and at most two additional records, signed or not
AddressRecord == NewResourceRecord(<<97, Dot>>, TypeA, DClassIN, 30,
                                   NewA(<<127, 0, 0, 1>>))
Messages ==
    {[id |-> id, opcode |-> opcode,
      questions |-> <<[name |-> <<97, Dot>>, type |-> TypeSOA,
                       dclass |-> DClassIN]>>,
      answers |-> <<>>, authorities |-> authorities,
      additionals |-> additionals, signer |-> signer] :
        id \in {1, 258}, opcode \in {OpCodeQuery, OpCodeUpdate},
        authorities \in {<<>>, <<AddressRecord>>},
        additionals \in {<<>>, <<AddressRecord>>,
                         <<AddressRecord, AddressRecord>>},
        signer \in BOOLEAN}

\* options.buffer.length: too short for a header, around the length of a
\* signed update, and enough for every request
BufferLens == {12} \cup (50..58) \cup {73, 90, 107, 142, 200}

FrameInit ==
    /\ ResolverInit /\ ClockIdle /\ TcpIdle /\ IoIdle /\ TripIdle
    /\ RecordIdle
    /\ frame \in {[NoFrame EXCEPT !.message = m,
                                  !.buffer = [i \in 1..n |-> 255],
                                  !.writeSigns = signs, !.step = "request"] :
                     m \in Messages, n \in BufferLens, signs \in BOOLEAN}

\* TransportTCP.send(request)
FrameSend ==
    /\ frame.step = "request"
    /\ frame' = TransportTcpSend(frame)
    /\ ResolverIdle
    /\ UNCHANGED <<clock, tcp, io, trip, rr>>

\* requests sent by TransportTCP.send
SpecFrames == FrameInit /\ [][FrameSend]_vars

\* the bytes of the TSIG record the signer gave send
SentTsig == Written(Sign(frame.message.id, frame.signed)).bytes

\* a signed UPDATE was written to the socket
SignedUpdateWritten ==
    /\ frame.step = "sent" /\ frame.outcome = "written"
    /\ frame.message.opcode = OpCodeUpdate /\ frame.message.signer

\* C14: the bytes send writes of a signed UPDATE carry ARCOUNT =
\* len(additionals) + 1; they end with the TSIG record, of type 250, that
\* the signer made of the message bytes before it, which are as signed but
\* for ARCOUNT; and the length prefix is the length of all that follows it.
C14_SignedUpdateFramed ==
    SignedUpdateWritten =>
       LET wire == frame.wire
           n == Len(wire)
           message == SubSeq(wire, PrefixLen + 1, n - Len(SentTsig))
       IN  /\ ReadU16(wire, PrefixLen + ArcountOffset, n)
                 = Len(frame.message.additionals) + 1
           /\ n >= PrefixLen + Len(SentTsig)
           /\ SubSeq(wire, n - Len(SentTsig) + 1, n) = SentTsig
           /\ ReadU16(SentTsig, ReaderAfterName(SentTsig, 0, Len(SentTsig)),
                      Len(SentTsig)) = TypeTSIG
           /\ Len(message) = Len(frame.signed)
           /\ \A i \in 1..Len(message) :
                 i \notin {ArcountOffset + 1, ArcountOffset + 2} =>
                    message[i] = frame.signed[i]
           /\ ReadU16(wire, 0, n) = n - PrefixLen

\* a signed UPDATE with an additional record was written, by a Message.write
\* that does not sign
C14_Witness ==
    /\ SignedUpdateWritten
    /\ ~frame.writeSigns
    /\ Len(frame.message.additionals) = 1
    /\ Len(frame.wire) > PrefixLen + Len(SentTsig)

\* ------------------------------------------------ records in a window
\* A resource record, with RDATA or without, written by ResourceRecord.write
\* to a Writer constructed at rr.offset of a sink with stale bytes.
\* rr.bytes is what the Writer holds from that offset to its cursor.

\* what r's RDATA encoder stores on a Writer of its own
DataWritten(r) ==
    With(ResourceDataWrite(
             NewWriter([i \in 1..RecordSinkLen |-> 0], 0, -1), r.rdata),
         LAMBDA W : SubSeq(W.sink, 1, W.cursor))

\* what a Writer constructed at offset holds after r.write(writer)
WrittenAt(r, offset) ==
    With(ResourceRecordWrite(
             NewWriter([i \in 1..(RecordSinkLen + offset) |-> 255], offset, -1),
             r), LAMBDA W :
        [bytes |-> SubSeq(W.sink, offset + 1, W.cursor),
         failed |-> W.overflowed \/ W.thrown])

\* the RDATA of the records: none, that of an A record, that of a TSIG record
Datas == {NoData} \cup Addresses \cup {Sign(258, <<>>).rdata}

WindowRecords ==
    {NewResourceRecord(name, TypeA, dclass, ttl, rdata) :
        name \in RecordNames, dclass \in {DClassIN, DClassANY},
        ttl \in {0, 65536}, rdata \in Datas}

WindowInit ==
    /\ ResolverInit /\ ClockIdle /\ TcpIdle /\ IoIdle /\ TripIdle /\ FrameIdle
    /\ rr \in {[NoRecord EXCEPT !.record = r, !.offset = offset,
                                !.step = "record"] :
                  r \in WindowRecords, offset \in 0..MaxOffset}

\* r.write(new Writer(sink, offset))
WindowWrite ==
    /\ rr.step = "record"
    /\ rr' = [rr EXCEPT !.bytes = WrittenAt(rr.record, rr.offset).bytes,
                        !.failed = WrittenAt(rr.record, rr.offset).failed,
                        !.step = "written"]
    /\ ResolverIdle
    /\ UNCHANGED <<clock, tcp, io, trip, frame>>

\* records written to Writers at an offset
SpecWindows == WindowInit /\ [][WindowWrite]_vars

\* the offset of RDLENGTH in the bytes of a written record
AtRdLength(bytes) == ReaderAfterName(bytes, 0, Len(bytes)) + 8

\* C21: the RDLENGTH of a written record is the number of bytes its RDATA
\* encoder stored right after it, which close the record; a record without
\* RDATA has RDLENGTH 0 and ends with it.
C21_RdLengthIsDataLength ==
    rr.step = "written" /\ ~rr.failed =>
       LET at == AtRdLength(rr.bytes)
           rdlength == ReadU16(rr.bytes, at, Len(rr.bytes))
       IN  /\ Len(rr.bytes) = at + 2 + rdlength
           /\ IF rr.record.rdata.kind = "none" THEN rdlength = 0
              ELSE /\ rdlength = Len(DataWritten(rr.record))
                   /\ SubSeq(rr.bytes, at + 3, Len(rr.bytes))
                         = DataWritten(rr.record)

\* a record with RDATA was written to a Writer constructed past the start
\* of its sink
C21_Witness ==
    /\ rr.step = "written" /\ rr.offset > 0 /\ ~rr.failed
    /\ rr.record.rdata.kind = "TSIG"
    /\ ReadU16(rr.bytes, AtRdLength(rr.bytes), Len(rr.bytes)) > 0

\* C22: byteLength of a record is the number of bytes its write stores.
C22_ByteLengthIsWritten ==
    rr.step = "written" /\ ~rr.failed =>
       rr.record.byteLength = Len(rr.bytes)

\* the name is not the root: it has a label
HasLabel(name) ==
    /\ Labels(name) # <<>>
    /\ \A i \in 1..Len(Labels(name)) : Len(Labels(name)[i]) > 0

\* C22 for names with a label and without '\': the same.
C22_PlainByteLengthIsWritten ==
    rr.step = "written" /\ ~rr.failed
    /\ HasLabel(rr.record.name)
    /\ (\A i \in 1..Len(rr.record.name) : rr.record.name[i] # Backslash) =>
       rr.record.byteLength = Len(rr.bytes)

\* ------------------------------------------------ names in upper case
\* Names with letters of both cases, written by writeName.

\* the letters of the names: a, A, b and B
CaseLetters == {97, 65, 98, 66}

\* String.toLowerCase, of character codes below 128
ToLowerCase(string) ==
    [i \in 1..Len(string) |->
        IF string[i] >= 65 /\ string[i] <= 90 THEN string[i] + 32
        ELSE string[i]]

\* the text of a name of these labels, with a trailing dot or without
Dotted(labels, trailing) ==
    LET text == Concat([i \in 1..Len(labels) |-> labels[i] \o <<Dot>>])
    IN  IF trailing THEN text ELSE SubSeq(text, 1, Len(text) - 1)

CaseLabels == UNION {[1..k -> CaseLetters] : k \in 1..MaxLabel}
CaseNames ==
    {Dotted(labels, trailing) :
        labels \in UNION {[1..n -> CaseLabels] : n \in 1..MaxLabels},
        trailing \in BOOLEAN}

CasesInit ==
    /\ ResolverInit /\ ClockIdle /\ TcpIdle /\ IoIdle /\ RecordIdle /\ FrameIdle
    /\ trip \in {[NoTrip EXCEPT !.text = text, !.step = "text"] :
                    text \in CaseNames}

\* names of both cases written
SpecCases == CasesInit /\ [][WriteName]_vars

\* what writeName(text) stores on a Writer of its own
NameWritten(text) ==
    With(WriterWriteName(NewWriter([i \in 1..NameSinkLen |-> 0], 0, -1), text),
         LAMBDA W : SubSeq(W.sink, 1, W.cursor))

\* C23: writeName stores of a name what it stores of the name in lower
\* case, so names that differ in the case of letters only are written to
\* the same bytes.
C23_CaseIsFolded ==
    trip.step = "written" /\ trip.wire = <<>> =>
       trip.written = NameWritten(ToLowerCase(trip.text))

\* C23 without the lowering: writeName stores every label as it is given.
C23_CaseIsKept ==
    trip.step = "written" /\ trip.wire = <<>> =>
       trip.written = Encode(Labels(trip.text))

\* ------------------------------------ the resolver socket: its containers
\* the containers that hold task t: a worker's "outbound" or "inbound"
Containers(t) ==
    {<<w, "outbound">> : w \in {v \in Workers : InQueue(v, t)}}
    \cup {<<w, "inbound">> : w \in {v \in Workers : InMap(v, t)}}

\* C24: between two callbacks every pending task is in exactly one of the
\* four containers.
C24_HeldByExactlyOne ==
    \A t \in SentTasks : Pending(t) => Cardinality(Containers(t)) = 1

\* C24 while no request has passed the UDP limit and the message IDs are
\* distinct: the same.
C24_SmallHeldByExactlyOne ==
    DistinctIds /\ (\A t \in SentTasks : request[t].size <= UdpLimit) =>
       \A t \in SentTasks : Pending(t) => Cardinality(Containers(t)) = 1

\* the socket of worker w reports that it is open, and the handler polls
\* with the transport open
Opens(w) ==
    IF w = "UDP" THEN \E o \in Sources : UdpListening(o)
    ELSE \E o \in Sources : TcpConnect(o)

\* times task t is in the outbound queue of worker w
TimesQueued(w, t) == Cardinality({i \in 1..Len(outbound[w]) : outbound[w][i] = t})

\* in this step transport.send of worker w was called once with task t's
\* request: the request was written once, or its overflow was reported once
HandedOnce(w, t) ==
    \/ /\ sent'[t][w] = sent[t][w] + 1
       /\ fallbacks'[t] = fallbacks[t]
       /\ outcome'[t] # "RequestTooLong"
    \/ /\ sent'[t][w] = sent[t][w]
       /\ Overflows(w, request[t].size)
       /\ \/ fallbacks'[t] = fallbacks[t] + 1
          \/ outcome'[t] = "RequestTooLong" /\ outcome[t] # "RequestTooLong"

\* C25: when poll runs with the transport open, every queued task is handed
\* to transport.send once and the queue is empty afterwards.
C25_PollHandsEachOnce ==
    [][\A w \in Workers :
          Opens(w) =>
             /\ \A t \in Tasks : InQueue(w, t) => HandedOnce(w, t)
             /\ outbound'[w] = <<>>]_vars

\* C25 for a batch without a request that overflows: the same, and the map
\* gets the tasks in the order of the queue.
C25_FittingBatchHandedInOrder ==
    [][\A w \in Workers :
          /\ Opens(w)
          /\ \A t \in Tasks :
                InQueue(w, t) =>
                   /\ ~Overflows(w, request[t].size)
                   /\ TimesQueued(w, t) = 1
                   /\ \A u \in Tasks :
                         u # t /\ Held(w, u) => request[u].id # request[t].id
          => /\ \A t \in Tasks : InQueue(w, t) => HandedOnce(w, t)
             /\ outbound'[w] = <<>>
             /\ inbound'[w] = inbound[w] \o outbound[w]]_vars

\* ------------------------------------------- the resolver socket: responses
\* the sequence s without its entries equal to t
Without(s, t) == SelectSeq(s, LAMBDA u : u # t)

\* C26: a response settles a task only if the task is in the inbound map of
\* the worker that received it; the task is removed from that map, and every
\* other entry of inbound and outbound is left as it was.
C26_ResponseSettlesAwaited ==
    [][\A t \in Tasks :
          outcome[t] = "pending" /\ outcome'[t] = "resolved" =>
             /\ InMap(answer'[t].via, t)
             /\ outbound' = outbound
             /\ inbound' = [inbound EXCEPT ![answer'[t].via] = Without(@, t)]]_vars

\* the errors the "unexpected" handler passes to options.onErrorIgnored when
\* a message with ID id arrives at worker w
IgnoredErrors(S, w, id) ==
    IF DequeueTask(S, w, id) = 0 THEN <<"ResponseIDUnexpected">> ELSE <<>>

\* a socket of worker w can deliver a message
Hears(w) == \E o \in Sources : SocketIs(State, w, o, "open")

\* no task in the sequence has message ID id
NoneHasId(seq, id) == \A i \in 1..Len(seq) : request[seq[i]].id # id

\* the response handler of worker w, given a message with ID id, settles no
\* task, leaves inbound and outbound of both workers as they are, and reports
\* ResponseIDUnexpected once
IsIgnoredOnce(w, id) ==
    \A tc \in Truncations(w) :
       /\ OnResponse(State, w, id, tc).outcome = outcome
       /\ OnResponse(State, w, id, tc).inbound = inbound
       /\ OnResponse(State, w, id, tc).outbound = outbound
       /\ IgnoredErrors(State, w, id) = <<"ResponseIDUnexpected">>

\* C27: a response whose message ID is that of no task in the inbound map of
\* the worker that receives it is reported once as ResponseIDUnexpected,
\* settles no task and leaves inbound and outbound of both workers unchanged.
C27_UnmatchedIsIgnored ==
    \A w \in Workers, id \in Ids :
       Hears(w) /\ NoneHasId(inbound[w], id) => IsIgnoredOnce(w, id)

\* C27 for a message ID that no task of the worker has, queued or awaited
C27_UnknownIsIgnored ==
    \A w \in Workers, id \in Ids :
       Hears(w) /\ NoneHasId(inbound[w], id) /\ NoneHasId(outbound[w], id)
          => IsIgnoredOnce(w, id)

\* --------------------------------------------- the resolver socket: sockets
\* the sockets of worker w that are opening or open
Usable(w) ==
    (IF sock[w] \in {"opening", "open"} THEN 1 ELSE 0)
    + old[w]["opening"] + old[w]["open"]

\* C28: opening is idempotent: a worker never has more than one socket that is
\* opening or open, and its opened flag says whether that socket is open.
C28_OneSocketPerWorker ==
    \A w \in Workers :
       /\ Usable(w) <= 1
       /\ isOpen[w] <=> Usable(w) = 1 /\ sock[w] = "open"

\* C28 for one request: without an enqueue or poll while the socket is
\* opening there is one socket, and the flag describes it.
C28_OneSocketForOneRequest ==
    nTasks <= 1 /\ (\A t \in SentTasks : request[t].size <= UdpLimit) =>
       \A w \in Workers :
          /\ Usable(w) <= 1
          /\ isOpen[w] <=> Usable(w) = 1 /\ sock[w] = "open"

\* the server closed a connection in this step, and the TCP transport emits
\* "close": the socket had not timed out
ClosesOrdinarily == faults' = Append(faults, "end") /\ ~isTimedOut

\* C29: when the TCP connection closes without an error while tasks are
\* awaited, the awaited tasks go back to the head of the outbound queue in
\* their order, the inbound map is empty, and a socket is opened for them.
C29_AwaitedAreQueuedAgain ==
    [][ClosesOrdinarily /\ inbound["TCP"] # <<>> =>
          /\ inbound'["TCP"] = <<>>
          /\ Len(outbound'["TCP"]) >= Len(inbound["TCP"])
          /\ SubSeq(outbound'["TCP"], 1, Len(inbound["TCP"])) = inbound["TCP"]
          /\ sock'["TCP"] = "opening"]_vars

\* what the close handler does instead: it polls, so the awaited tasks stay
\* in the inbound map, the queue is unchanged and nothing is written
C29_AwaitedStayAwaited ==
    [][ClosesOrdinarily =>
          /\ inbound'["TCP"] = inbound["TCP"]
          /\ outbound'["TCP"] = outbound["TCP"]
          /\ sent' = sent
          /\ outcome' = outcome]_vars

\* ----------------------------------------- the resolver socket: idle closer
\* worker w awaits nothing and has nothing queued
IsEmpty(w) == Len(inbound[w]) = 0 /\ Len(outbound[w]) = 0

\* the closer of worker w, firing now, closes nothing and arms one timer
DefersNow(w) ==
    /\ OnCloser(State, w).isOpen = isOpen
    /\ OnCloser(State, w).sock = sock
    /\ OnCloser(State, w).old = old
    /\ OnCloser(State, w).closer[w] = 1

\* the closer of worker w, firing now, closes the transport and arms nothing
ClosesNow(w) ==
    /\ ~OnCloser(State, w).isOpen[w]
    /\ isOpen[w] /\ sock[w] = "open" => OnCloser(State, w).sock[w] = "closing"
    /\ OnCloser(State, w).closer[w] = 0

\* C30: the idle-close timer closes the transport of its worker only if the
\* worker's inbound and outbound are both empty when it fires; otherwise it
\* closes nothing and arms itself again; a worker never has more than one
\* armed timer.
C30_IdleCloserClosesWhenEmpty ==
    \A w \in Workers :
       /\ closer[w] <= 1
       /\ closer[w] = 1 =>
             /\ OnCloser(State, w).inbound = inbound
             /\ OnCloser(State, w).outbound = outbound
             /\ OnCloser(State, w).outcome = outcome
             /\ IF IsEmpty(w) THEN ClosesNow(w) ELSE DefersNow(w)

\* the idle closer has just closed an open transport, and the timer of the
\* other worker is armed while that worker awaits a response
C30_Witness ==
    \E w, v \in Workers :
       /\ faults # <<>> /\ faults[Len(faults)] = "idle"
       /\ closer[w] = 0 /\ ~isOpen[w] /\ sock[w] = "closing" /\ IsEmpty(w)
       /\ closer[v] = 1 /\ isOpen[v] /\ ~IsEmpty(v)

\* ------------------------------------------ the idle closer on the clock
\* One worker on the millisecond clock: poll writes one request at time 0 and
\* calls deferCloseIfEmpty; the response arrives at responseAt and empties
\* the inbound map; no request is enqueued afterwards.
keepOpenForMs == 3000    \* options.keepOpenForMs || 3000
StepMs == 250            \* the arrival times of the response: every StepMs
MaxKeeps == 3            \* the response arrives within MaxKeeps * keepOpenForMs

\* options.keepOpenForMs
KeepOpens == {keepOpenForMs \div 3, keepOpenForMs}

\* the times at which the response arrives: a grid, and the moments just
\* before and after each firing of the timer
ResponseTimes(keep) ==
    {t \in 1..(MaxKeeps * keep) : t % StepMs = 0}
    \cup {k * keep + d : k \in 1..(MaxKeeps - 1), d \in {-1, 0, 1}}
    \cup {1}

\* this.closer = setTimeout(..., this.options.keepOpenForMs)
KeepDefer(c) == [c EXCEPT !.fireAt = c.now + c.keepOpenForMs]

\* the "response" handler: the task is dequeued and resolved; the closer is
\* not touched
KeepOnResponse(c) == [c EXCEPT !.awaited = FALSE, !.emptiedAt = c.now]

\* the closer's callback: closeIfEmpty, and deferCloseIfEmpty if it is false
KeepOnCloser(c) ==
    IF ~c.awaited THEN [c EXCEPT !.closedAt = c.now] ELSE KeepDefer(c)

KeepClocks ==
    {KeepDefer([keepOpenForMs |-> keep, now |-> 0, fireAt |-> 0,
                awaited |-> TRUE, responseAt |-> at, emptiedAt |-> -1,
                closedAt |-> -1]) :
        keep \in KeepOpens, at \in UNION {ResponseTimes(k) : k \in KeepOpens}}

KeepInit ==
    /\ ResolverInit /\ clock \in KeepClocks /\ TcpIdle /\ IoIdle /\ TripIdle
    /\ RecordIdle /\ FrameIdle

\* the response arrives before the timer fires, or in the same millisecond
KeepHears ==
    /\ clock.awaited /\ clock.closedAt < 0
    /\ clock.responseAt <= clock.fireAt
    /\ clock' = KeepOnResponse([clock EXCEPT !.now = clock.responseAt])
    /\ ResolverIdle
    /\ UNCHANGED <<tcp, io, trip, rr, frame>>

\* the timer fires
KeepFires ==
    /\ clock.closedAt < 0
    /\ clock.awaited => clock.fireAt <= clock.responseAt
    /\ clock' = KeepOnCloser([clock EXCEPT !.now = clock.fireAt])
    /\ ResolverIdle
    /\ UNCHANGED <<tcp, io, trip, rr, frame>>

\* one request, answered once, and the idle closer
SpecKeep == KeepInit /\ [][KeepHears \/ KeepFires]_vars

\* C31: the transport is closed no earlier than keepOpenForMs and no later
\* than keepOpenForMs plus one tick of the interval after the moment inbound
\* and outbound became empty.
C31_ClosedKeepOpenAfterEmpty ==
    clock.closedAt >= 0 =>
       /\ clock.closedAt - clock.emptiedAt >= clock.keepOpenForMs
       /\ clock.closedAt - clock.emptiedAt
             <= clock.keepOpenForMs + TickInterval(timeoutInMs)

\* what the timer does: it was armed by poll, so the transport is closed at
\* the first multiple of keepOpenForMs after the poll at which the worker is
\* empty, which is less than keepOpenForMs after it became empty
C31_ClosedAtNextFiring ==
    clock.closedAt >= 0 =>
       /\ clock.closedAt % clock.keepOpenForMs = 0
       /\ clock.closedAt - clock.emptiedAt >= 0
       /\ clock.closedAt - clock.emptiedAt <= clock.keepOpenForMs

\* ---------------------------------------- the resolver socket: reopening
\* a socket of worker w that is no longer this.socket reports "close" after
\* its end() or close()
LateClose(w) ==
    /\ old[w]["closing"] > 0
    /\ IF w = "TCP" THEN TcpClose("old") ELSE UdpClose("old")

\* worker w was closed and opened again: this.socket is its one socket that
\* is opening or open
Reopened(w) == sock[w] \in {"opening", "open"} /\ Usable(w) = 1

\* C32: a close event of the previous socket that arrives after the
\* transport was opened again does not mark the new transport as closed and
\* causes no further open.
C32_LateCloseLeavesNewTransport ==
    [][\A w \in Workers :
          LateClose(w) /\ Reopened(w) =>
             /\ isOpen'[w] = isOpen[w]
             /\ sock'[w] = sock[w]
             /\ old'[w]["opening"] = 0 /\ old'[w]["open"] = 0]_vars

\* the first half of C32: a send that enqueues a request on a worker whose
\* transport is closed, none of its sockets opening or open, makes the worker
\* open a socket, and the request waits in outbound for it
C32_EnqueueOpensAgain ==
    [][\A w \in Workers :
          /\ nTasks' = nTasks + 1
          /\ ~isOpen[w] /\ Usable(w) = 0
          /\ outbound'[w] # outbound[w]
          => /\ sock'[w] = "opening"
             /\ outbound'[w] = Append(outbound[w], nTasks')
             /\ sent'[nTasks'][w] = 0]_vars

\* ------------------------------------------ the resolver socket: errors
Other(w) == IF w = "TCP" THEN "UDP" ELSE "TCP"

\* in this step the transport of worker w emits "error": a TCP socket
\* reports an error or a message fails to decode, or the UDP socket that
\* onError closed reports "close"
EmitsError(w) ==
    IF w = "TCP" THEN faults' = Append(faults, "tcp error")
    ELSE udpError # "none" /\ udpError' = "none"

\* the step leaves what worker v holds as it was: queue, map and promises
LeavesAlone(v) ==
    /\ inbound'[v] = inbound[v]
    /\ outbound'[v] = outbound[v]
    /\ \A t \in Tasks : Held(v, t) => outcome'[t] = outcome[t]

\* C33: an error or decode failure on one worker rejects and removes no
\* task that the other worker holds.
C33_ErrorLeavesOtherWorker ==
    [][\A w \in Workers : EmitsError(w) => LeavesAlone(Other(w))]_vars

\* C33 while no task is held by both workers
C33_ErrorLeavesOtherWorkersOwn ==
    [][\A w \in Workers :
          /\ EmitsError(w)
          /\ \A t \in Tasks : ~(Held("UDP", t) /\ Held("TCP", t))
          => LeavesAlone(Other(w))]_vars

\* ----------------------------------- the resolver socket: IDs of a worker
\* the message IDs of the tasks in a sequence
IdsIn(seq) == {request[seq[i]].id : i \in 1..Len(seq)}

\* C34: between handlers, no message ID is in the inbound map and in the
\* outbound queue of one worker, and the inbound map holds one task per ID.
C34_IdAwaitedIsNotQueued ==
    \A w \in Workers :
       /\ IdsIn(inbound[w]) \cap IdsIn(outbound[w]) = {}
       /\ \A i, j \in 1..Len(inbound[w]) :
             i # j => request[inbound[w][i]].id # request[inbound[w][j]].id

\* a request is awaited by a worker whose transport has been closed, and a
\* second request with its message ID was sent and rejected instead of queued
C34_Witness ==
    \E w \in Workers, t, u \in SentTasks :
       /\ InMap(w, t) /\ ~isOpen[w]
       /\ u # t /\ request[u].id = request[t].id
       /\ outcome[u] = "RequestIDInUse"
       /\ ~Held(w, u)

\* ------------------------------------------------- the scratch buffer
\* options.buffer is one Buffer: ResolverSocket's constructor passes the same
\* options object to both senders.  The receive parser of TransportTCP keeps
\* it as receiveBuffer (tcp.usesScratch), and both transports encode into it.

\* the request a send encodes: three bytes
ScratchRequest == <<2, 2, 2>>

\* what send of worker w leaves in options.buffer: TransportUDP.send writes
\* the request from offset 0, TransportTCP.send from offset 2 and its length
\* at offset 0
ScratchAfterSend(scratch, w) ==
    IF w = "UDP"
    THEN Overlay(scratch, 0, ScratchRequest, Len(ScratchRequest))
    ELSE Overlay(scratch, 0, Frame(ScratchRequest), Len(Frame(ScratchRequest)))

\* poll of worker w sends a request between two "data" events
ScratchSend(w) ==
    /\ ~tcp.thrown
    /\ tcp.pos < Len(Stream(tcp.messages))
    /\ tcp' = [tcp EXCEPT !.scratch = ScratchAfterSend(@, w)]
    /\ ResolverIdle
    /\ UNCHANGED <<clock, io, trip, rr, frame>>

\* a stream received in chunks while both workers send
SpecScratch ==
    ParserInit
    /\ [][LengthData \/ MessageData \/ \E w \in Workers : ScratchSend(w)]_vars

\* bytes of a response that is being received are in options.buffer
HoldsReceived(T) == T.usesScratch /\ T.bytesReceived > 0

\* the bytes of options.buffer that a send of worker w writes
SendWrites(w) == 1..(IF w = "UDP" THEN Len(ScratchRequest)
                     ELSE Len(Frame(ScratchRequest)))

\* C35: a send of either worker changes no byte of a response that the TCP
\* receive parser is still receiving.
C35_SendLeavesReceived ==
    [][\A w \in Workers :
          ScratchSend(w) /\ HoldsReceived(tcp) =>
             ReceiveBuffer(tcp') = ReceiveBuffer(tcp)]_vars

\* what holds: a send leaves the parser's position and counters alone, and
\* the bytes of its receive buffer when that is a slice of a chunk or lies
\* beyond the bytes the send wrote
C35_SendLeavesSlices ==
    [][\A w \in Workers :
          ScratchSend(w) =>
             /\ tcp'.bytesExpected = tcp.bytesExpected
             /\ tcp'.bytesReceived = tcp.bytesReceived
             /\ tcp'.emitted = tcp.emitted
             /\ ~tcp.usesScratch => ReceiveBuffer(tcp') = ReceiveBuffer(tcp)
             /\ \A i \in (1..ScratchLen) \ SendWrites(w) :
                   tcp'.scratch[i] = tcp.scratch[i]]_vars

\* ---------------------------------------- the resolver socket: settling
\* C36: task.resolve and task.reject are called at most once in total for
\* every task.
C36_SettledOnce ==
    \A t \in Tasks : calls[t] <= 1

\* C36 while no request passes the UDP limit: no task is held by both
\* workers, and every handler that settles a task has removed it from the
\* worker that held it
C36_SmallSettledOnce ==
    (\A t \in SentTasks : request[t].size <= UdpLimit) =>
       \A t \in Tasks : calls[t] <= 1

\* C37: a task that has been resolved or rejected is in no inbound map and
\* in no outbound queue, and its request is not written again.
C37_SettledIsHeldByNone ==
    [][\A t \in Tasks :
          /\ ~Pending(t) => \A w \in Workers : ~Held(w, t)
          /\ ~Pending(t) => sent'[t] = sent[t]]_vars

\* C37 while no request passes the UDP limit
C37_SmallSettledIsHeldByNone ==
    [][(\A t \in SentTasks : request[t].size <= UdpLimit) =>
          \A t \in Tasks :
             /\ ~Pending(t) => \A w \in Workers : ~Held(w, t)
             /\ ~Pending(t) => sent'[t] = sent[t]]_vars

\* ------------------------------------------ the resolver socket: closed
\* ResolverSocket.close() has been called
WasClosed == \E i \in 1..Len(faults) : faults[i] = "close"

\* the sockets of worker w that have been created and have not yet reported
\* "connect" or "listening"
Opening(w) == (IF sock[w] = "opening" THEN 1 ELSE 0) + old[w]["opening"]

\* the same in the next state
OpeningNext(w) == (IF sock'[w] = "opening" THEN 1 ELSE 0) + old'[w]["opening"]

\* the step creates no socket and writes no request that was written before
StaysClosed ==
    /\ \A w \in Workers : OpeningNext(w) <= Opening(w)
    /\ \A t \in Tasks, w \in Workers :
          sent[t][w] > 0 => sent'[t][w] = sent[t][w]

\* C38: after close(), while send is not called, no worker creates a socket
\* and no request is written again, whatever timers and sockets report.
C38_ClosedStaysClosed ==
    [][WasClosed /\ nTasks' = nTasks => StaysClosed]_vars

\* C38 for a resolver socket that holds no task when close() is called and
\* afterwards
C38_ClosedEmptyStaysClosed ==
    [][/\ WasClosed /\ nTasks' = nTasks
       /\ \A w \in Workers : IsEmpty(w)
       => StaysClosed]_vars

\* ------------------------------------------- readName and its pointers
\* Reader.readName step by step: every iteration of its while loop and every
\* call of new Reader(this.source, field).readName() is one step.  After the
\* nested call the caller appends and breaks, so the calls that wait hold no
\* state but their number, trip.depth; trip.cursor and trip.end are those of
\* the innermost Reader, trip.starts the offsets at which a Reader was
\* constructed, trip.revisited whether one was constructed at an offset
\* twice.  A call beyond MaxStack waiting calls exhausts the call stack.

MaxWire == 4         \* bytes in a buffer: 1..MaxWire
MaxStack == 6        \* nested calls the call stack holds
PointerTag == 192    \* (length & 0xc0) === 0xc0
PointerMask == 16384 \* this.readU16() & 0x3fff

\* the bytes of a buffer: the root, lengths, a letter, a length above 63
\* that is no pointer, and the first byte of a pointer
WireBytes == {0, 1, 2, 97, 64, PointerTag}

\* every buffer of 1..MaxWire of these bytes
PointerWires == UNION {[1..n -> WireBytes] : n \in 1..MaxWire}

\* new Reader(wire).readName() has been called
Pointers ==
    {[wire |-> wire, cursor |-> 0, end |-> Len(wire), depth |-> 1,
      starts |-> {0}, revisited |-> FALSE, step |-> "reading"] :
        wire \in PointerWires}

PointersInit ==
    /\ ResolverInit /\ ClockIdle /\ TcpIdle /\ IoIdle /\ trip \in Pointers
    /\ RecordIdle /\ FrameIdle

\* readName returns, and with it every call that waits for it
ReadNameReturn(T) == [T EXCEPT !.step = "returned", !.depth = 0]

\* new Reader(this.source, field).readName()
ReadNameCall(T, field) ==
    IF T.depth >= MaxStack THEN [T EXCEPT !.step = "RangeError"]
    ELSE [T EXCEPT !.cursor = field, !.end = Len(T.wire),
                   !.depth = @ + 1,
                   !.starts = @ \cup {field},
                   !.revisited = @ \/ field \in T.starts]

\* one iteration of the while loop of readName
ReadNameLoop(T) ==
    IF T.cursor + 1 > T.end \/ T.wire[T.cursor + 1] = 0
    THEN ReadNameReturn(T)
    ELSE LET length == T.wire[T.cursor + 1]
         IN  IF length > LongestLabel
             THEN IF length >= PointerTag
                  THEN ReadNameCall(
                          T, ReadU16(T.wire, T.cursor, T.end) % PointerMask)
                  ELSE ReadNameReturn(T)
             ELSE [T EXCEPT !.cursor = Min(T.end, T.cursor + 1 + length)]

\* readName runs one step further
ReadNameStep ==
    /\ trip.step = "reading"
    /\ trip' = ReadNameLoop(trip)
    /\ ResolverIdle
    /\ UNCHANGED <<clock, tcp, io, rr, frame>>

\* readName on every buffer
SpecPointers == PointersInit /\ [][ReadNameStep]_vars

\* C39: readName terminates on every buffer: its nested calls never exhaust
\* the call stack.
C39_ReadNameReturns == trip.step # "RangeError"

\* C39 for buffers without a cycle of pointers: the call stack is exhausted
\* only after a Reader was constructed twice at one offset, and a readName
\* that did so never returns
C39_ReturnsUnlessRevisited ==
    /\ trip.step = "RangeError" => trip.revisited
    /\ trip.revisited => trip.step # "returned"

\* ------------------------------------------------ 48-bit words, there
\* and back.  writeU48(u48) on a new Writer over a sink of zeros, then
\* readU48() of a new Reader over the same bytes from the same offset.
\* trip.u48 is the word, trip.writer the Writer, trip.read what readU48
\* returned.

Limbs == {0, 1, 255, 32767, 32768, 65535}
Words48 == Limbs \X Limbs \X Limbs
WordSinkLen == 8     \* sink.length
WordOffsets == 0..2  \* the offset the Writer is constructed with

\* a sink of n zeros
Zeros(n) == [i \in 1..n |-> 0]

\* Reader.readU48 with the cursor at cursor (from 0): (hi * 4294967296) + lo
ReadU48(source, cursor, end) ==
    IF cursor + 6 > end THEN <<0, 0, 0>>
    ELSE <<(source[cursor + 1] * 256) + source[cursor + 2],
           (source[cursor + 3] * 256) + source[cursor + 4],
           (source[cursor + 5] * 256) + source[cursor + 6]>>

WordsInit ==
    /\ ResolverInit /\ ClockIdle /\ TcpIdle /\ IoIdle /\ RecordIdle
    /\ FrameIdle
    /\ trip \in {[u48 |-> u, writer |-> NewWriter(Zeros(WordSinkLen), o, -1),
                  read |-> <<0, 0, 0>>, step |-> "drawn"] :
                     u \in Words48, o \in WordOffsets}

\* writer.writeU48(u48)
WriteU48 ==
    /\ trip.step = "drawn"
    /\ trip' = [trip EXCEPT !.writer = WriterWriteU48(@, trip.u48),
                            !.step = "written"]
    /\ ResolverIdle
    /\ UNCHANGED <<clock, tcp, io, rr, frame>>

\* new Reader(writer.sink, offset).readU48(), after a writeU48 that returned
ReadBackU48 ==
    /\ trip.step = "written"
    /\ ~trip.writer.thrown
    /\ trip' = [trip EXCEPT
                   !.read = ReadU48(trip.writer.sink, trip.writer.begin,
                                    Len(trip.writer.sink)),
                   !.step = "read"]
    /\ ResolverIdle
    /\ UNCHANGED <<clock, tcp, io, rr, frame>>

SpecWords == WordsInit /\ [][WriteU48 \/ ReadBackU48]_vars

\* writeU48 has written exactly 6 bytes and returned
WroteSix(T) ==
    /\ ~T.writer.thrown /\ ~T.writer.overflowed
    /\ T.writer.cursor = T.writer.begin + 6
    /\ T.writer.touched = T.writer.begin..(T.writer.begin + 5)

\* C40: for every x in 0..2^48-1, writeU48(x) writes exactly 6 bytes and a
\* following readU48 over them returns x, also when bit 31 of x is set.
C40_U48RoundTrip ==
    /\ trip.step = "written" => WroteSix(trip)
    /\ trip.step = "read" => trip.read = trip.u48

\* C40 for the words whose bit 31 is clear
C40_U48RoundTripBit31Clear ==
    trip.u48[2] < 32768 =>
        /\ trip.step = "written" => WroteSix(trip)
        /\ trip.step = "read" => trip.read = trip.u48
====
